---- MODULE Spec2Model ----
(***************************************************************************)
(* A model of the agent-firewall detection pipeline: the normalizer, the   *)
(* rule engine, the scoring engine, the default policy and the             *)
(* AgentFirewall orchestrator with its intelligence providers.             *)
(*                                                                         *)
(* Numbers.  The TypeScript code computes with IEEE doubles, and so does   *)
(* the model: section "Numbers" defines the binary64 values and their      *)
(* operations with the rounding of each one, and every score, weight and   *)
(* threshold of the model is such a value.                                 *)
(***************************************************************************)
EXTENDS Integers, Sequences, FiniteSets, TLC

VARIABLES
    pc,          \* position of the call / of the object under construction
    prompt,      \* AgentFirewall.evaluate: the prompt argument
    rules,       \* RuleEngine.rules
    providers,   \* AgentFirewall.intelligenceProviders
    weights,     \* the three ScoringEngine weights
    thresholds,  \* DefaultPolicy.thresholds
    normalizedInput, \* local of evaluate
    evidence,    \* local of evaluate / argument of calculate
    calls,       \* per provider: state of its analyze promise
    signals,     \* local of evaluate / argument of calculate
    score,       \* {riskScore, confidence}
    action,      \* PolicyAction
    decision,    \* the Decision returned by evaluate
    trace,       \* the stages executed so far, in order
    env          \* process.env: the three weight overrides

vars == <<pc, prompt, rules, providers, weights, thresholds, normalizedInput,
          evidence, calls, signals, score, action, decision, trace, env>>

\* The value of an absent optional field or of an unset local (undefined).
Undefined == <<>>

-----------------------------------------------------------------------------
(* Numbers: the JavaScript number type (IEEE 754 binary64) with all of its *)
(* values: the normal and the subnormal numbers, the two zeros, the two    *)
(* infinities and NaN.  Every arithmetic operation computes the exact      *)
(* result and rounds it to nearest, ties to even, with overflow to an      *)
(* infinity and gradual underflow.                                         *)

\* A natural number of any size is the sequence of its digits in base 2^14,
\* least significant first, without leading zero digits; 0 is <<>>.
LimbBase == 2 ^ 14

Pow2(n) == 2 ^ n

Limb(a, i) == IF i >= 1 /\ i <= Len(a) THEN a[i] ELSE 0

BigTrim(a) ==
    LET nz == {i \in 1..Len(a) : a[i] # 0}
    IN  IF nz = {} THEN <<>>
        ELSE SubSeq(a, 1, CHOOSE i \in nz : \A j \in nz : j <= i)

\* Long numbers are worked on in blocks of 16 digits, so that no recursion
\* is deeper than a block is long or than the blocks halve.

\* The digits of the number whose columns are cols (each below 2^31 in size)
\* from column i to column hi, with the carry that comes into column i,
\* followed by the carry that goes out of column hi.
RECURSIVE BigCarry(_, _, _, _)
BigCarry(cols, i, hi, carry) ==
    IF i > hi THEN <<carry>>
    ELSE <<(cols[i] + carry) % LimbBase>>
         \o BigCarry(cols, i + 1, hi, (cols[i] + carry) \div LimbBase)

\* s without its last element
Front(s) == SubSeq(s, 1, Len(s) - 1)

\* s[Len(s)]
Last(s) == s[Len(s)]

\* The same for the columns lo to hi, one half after the other.
RECURSIVE BigCarryRange(_, _, _, _)
BigCarryJoin(cols, mid, hi, left) ==
    Front(left) \o BigCarryRange(cols, mid + 1, hi, Last(left))
BigCarryRange(cols, lo, hi, carry) ==
    IF hi - lo < 16 THEN BigCarry(cols, lo, hi, carry)
    ELSE BigCarryJoin(cols, (lo + hi) \div 2, hi,
                      BigCarryRange(cols, lo, (lo + hi) \div 2, carry))

\* The digits ds with the carry out of the last column (below 2^17) as two
\* more digits.
BigCarryOut(ds) == Front(ds) \o <<Last(ds) % LimbBase, Last(ds) \div LimbBase>>

BigOfColumns(cols) == BigTrim(BigCarryOut(BigCarryRange(cols, 1, Len(cols), 0)))

BigOfInt(n) == BigOfColumns(<<n>>)

BigAdd(a, b) ==
    BigOfColumns([i \in 1..(IF Len(a) > Len(b) THEN Len(a) ELSE Len(b)) |->
                     Limb(a, i) + Limb(b, i)])

\* a - b for a >= b
BigSub(a, b) == BigOfColumns([i \in 1..Len(a) |-> a[i] - Limb(b, i)])

\* -1, 0 or 1 as a is below, equal to or above b
BigCmp(a, b) ==
    IF Len(a) # Len(b) THEN (IF Len(a) < Len(b) THEN -1 ELSE 1)
    ELSE LET d == {i \in 1..Len(a) : a[i] # b[i]}
         IN  IF d = {} THEN 0
             ELSE LET t == CHOOSE i \in d : \A j \in d : j <= i
                  IN  IF a[t] < b[t] THEN -1 ELSE 1

\* a * k for 0 <= k < 2^16
BigMulSmall(a, k) == BigOfColumns([i \in 1..Len(a) |-> a[i] * k])

RECURSIVE ColumnSum(_, _, _, _)
ColumnSum(a, b, k, i) ==
    IF i > Len(a) THEN 0
    ELSE Limb(a, i) * Limb(b, k + 1 - i) + ColumnSum(a, b, k, i + 1)

\* a * b for a and b of four digits at most
BigMul(a, b) ==
    BigOfColumns([k \in 1..(Len(a) + Len(b)) |-> ColumnSum(a, b, k, 1)])

\* a * 2^s
BigShl(a, s) ==
    IF a = <<>> THEN <<>>
    ELSE [i \in 1..(s \div 14) |-> 0] \o BigMulSmall(a, Pow2(s % 14))

\* floor(a / 2^r)
BigShr(a, r) ==
    LET k == r \div 14
        j == r % 14
    IN  BigTrim([i \in 1..(IF Len(a) > k THEN Len(a) - k ELSE 0) |->
                    (a[i + k] \div Pow2(j))
                    + (Limb(a, i + k + 1) % Pow2(j)) * Pow2(14 - j)])

\* the number of binary digits of a
BigBitLen(a) ==
    IF a = <<>> THEN 0
    ELSE 14 * (Len(a) - 1)
         + (CHOOSE n \in 1..14 : a[Len(a)] < Pow2(n) /\ a[Len(a)] >= Pow2(n - 1))

\* binary digit p of a (digit 0 is the last one)
BigBit(a, p) == (Limb(a, (p \div 14) + 1) \div Pow2(p % 14)) % 2

\* some binary digit of a below digit p is 1
BigLowBits(a, p) ==
    \/ \E i \in 1..(p \div 14) : Limb(a, i) # 0
    \/ Limb(a, (p \div 14) + 1) % Pow2(p % 14) # 0

\* The digits i down to lo of floor(a / k), the first one first, followed by
\* the remainder, for 0 < k < 2^16; rem is the remainder of the digits of a
\* above i.
RECURSIVE BigDivSmallFrom(_, _, _, _, _)
BigDivSmallFrom(a, k, i, lo, rem) ==
    IF i < lo THEN <<rem>>
    ELSE <<(rem * LimbBase + a[i]) \div k>>
         \o BigDivSmallFrom(a, k, i - 1, lo, (rem * LimbBase + a[i]) % k)

\* The same for the digits hi down to lo, the upper half before the lower.
RECURSIVE BigDivSmallRange(_, _, _, _, _)
BigDivSmallLower(a, k, lo, mid, high) ==
    Front(high) \o BigDivSmallRange(a, k, lo, mid, Last(high))
BigDivSmallRange(a, k, lo, hi, rem) ==
    IF hi - lo < 16 THEN BigDivSmallFrom(a, k, hi, lo, rem)
    ELSE BigDivSmallLower(a, k, lo, (lo + hi) \div 2,
                          BigDivSmallRange(a, k, ((lo + hi) \div 2) + 1, hi, rem))

\* The quotient and the remainder from these digits.
BigDivSmallResult(ds) ==
    [q |-> BigTrim([i \in 1..(Len(ds) - 1) |-> ds[Len(ds) - i]]), r |-> Last(ds)]

\* floor(a / k) and a % k for 0 < k < 2^16
BigDivSmall(a, k) == BigDivSmallResult(BigDivSmallRange(a, k, 1, Len(a), 0))

\* a * 10^n, one half of the factors after the other
RECURSIVE BigMulPow10(_, _)
BigMulPow10(a, n) ==
    IF a = <<>> THEN <<>>
    ELSE IF n <= 4 THEN BigMulSmall(a, 10 ^ n)
    ELSE BigMulPow10(BigMulPow10(a, n \div 2), n - n \div 2)

\* floor(st.q / 10^n), and whether this or an earlier division (st.inexact)
\* left a remainder.
RECURSIVE BigDivPow10(_, _)
BigDivPow10Result(qr, inexact) == [q |-> qr.q, inexact |-> inexact \/ qr.r # 0]
BigDivPow10(st, n) ==
    IF st.q = <<>> THEN st
    ELSE IF n <= 4 THEN BigDivPow10Result(BigDivSmall(st.q, 10 ^ n), st.inexact)
    ELSE BigDivPow10(BigDivPow10(st, n \div 2), n - n \div 2)

\* The last 4 * n decimal digits of a, and what is before them (q): four
\* digits from a division by 10^4, or one half of the digits after the other.
RECURSIVE BigDecimalGroups(_, _)
BigDecimalGroup(qr) ==
    [q |-> qr.q, digits |-> <<qr.r \div 1000, (qr.r \div 100) % 10,
                              (qr.r \div 10) % 10, qr.r % 10>>]
BigDecimalGlue(high, low) == [q |-> high.q, digits |-> high.digits \o low.digits]
BigDecimalUpper(low, n) ==
    IF low.q = <<>> THEN low ELSE BigDecimalGlue(BigDecimalGroups(low.q, n), low)
BigDecimalGroups(a, n) ==
    IF n = 1 THEN BigDecimalGroup(BigDivSmall(a, 10000))
    ELSE BigDecimalUpper(BigDecimalGroups(a, n \div 2), n - n \div 2)

\* s from its first element that is not z on
StripLeading(s, z) ==
    IF \A i \in 1..Len(s) : s[i] = z THEN <<>>
    ELSE SubSeq(s, CHOOSE i \in 1..Len(s) : s[i] # z /\ \A j \in 1..(i - 1) : s[j] = z,
                Len(s))

\* The decimal digits of a, the first one first; <<>> for 0.  A group of four
\* decimal digits takes more than 13 binary ones.
BigDecimal(a) == StripLeading(BigDecimalGroups(a, (BigBitLen(a) \div 13) + 1).digits, 0)

\* The next digit of the quotient of n by d (four digits, the first one at
\* least 2^13): the largest t with d * t <= n, counted down from the
\* estimate t, which is the digit or at most two above it.
RECURSIVE DivDigit(_, _, _)
DivDigit(n, d, t) ==
    IF BigCmp(BigMulSmall(d, t), n) <= 0 THEN t ELSE DivDigit(n, d, t - 1)

\* the quotient st.q with the digit t before it, and what is left of n
DivTake(st, n, d, t) == [q |-> <<t>> \o st.q, r |-> BigSub(n, BigMulSmall(d, t))]

\* One step of the long division by d: from the digits st.q of the quotient
\* so far (the last one first) and the remainder st.r < d, the same with one
\* more digit.  The estimate comes from the leading digits.
DivStep(st, d) ==
    LET n   == IF st.r = <<>> THEN <<>> ELSE <<0>> \o st.r
        est == (Limb(n, 5) * LimbBase + Limb(n, 4)) \div d[4]
    IN  DivTake(st, n, d, DivDigit(n, d, IF est > LimbBase - 1 THEN LimbBase - 1 ELSE est))

\* k more steps of the long division by d
RECURSIVE DivSteps(_, _, _)
DivSteps(st, d, k) ==
    IF k = 0 \/ st.q = <<>> THEN st ELSE DivSteps(DivStep(st, d), d, k - 1)

\* A binary64 value is [kind, s, m, e].  A finite value (kind "fin") is
\* s * m * 2^e with the sign s (1 or -1): a normal number has a significand
\* m of 53 binary digits (2^52 <= m < 2^53) and MinExp <= e <= MaxExp, a
\* subnormal number has m < 2^52 and e = MinExp, and the zeros +0 and -0 have
\* m = 0 (and e = 0).  The infinities (kind "inf") have a sign, NaN (kind
\* "nan") is one value.
MinExp == -(1022 + 52)
MaxExp == 1023 - 52

Finite(s, m, e) == [kind |-> "fin", s |-> s, m |-> m, e |-> e]
SignedZero(s) == [kind |-> "fin", s |-> s, m |-> <<>>, e |-> 0]
Infinity(s) == [kind |-> "inf", s |-> s, m |-> <<>>, e |-> 0]
NaN == [kind |-> "nan", s |-> 1, m |-> <<>>, e |-> 0]
Zero == SignedZero(1)

\* isNaN(x)
IsNaN(x) == x.kind = "nan"
\* x is +0 or -0
IsZero(x) == x.kind = "fin" /\ x.m = <<>>

\* The value s * m * 2^e of a significand that was rounded to 53 digits: the
\* rounding may have carried into a 54th digit, the exponent may be above
\* the largest one (overflow), and m may be 0 (underflow).
F64Pack(s, m, e) ==
    IF m = <<>> THEN SignedZero(s)
    ELSE IF BigBitLen(m) = 54
    THEN (IF e + 1 > MaxExp THEN Infinity(s) ELSE Finite(s, BigShr(m, 1), e + 1))
    ELSE IF e > MaxExp THEN Infinity(s) ELSE Finite(s, m, e)

\* Rounding big to a multiple of 2^r goes up: the first digit dropped is 1
\* and either a later one is (or sticky), or the last digit kept is 1.
RoundsUp(big, r, sticky) ==
    /\ BigBit(big, r - 1) = 1
    /\ (sticky \/ BigLowBits(big, r - 1) \/ BigBit(big, r) = 1)

\* s * big * 2^e with its last r binary digits rounded away (r > 0), or with
\* -r zero digits appended (r <= 0)
F64RoundAt(s, big, e, r, sticky) ==
    IF r <= 0 THEN F64Pack(s, BigShl(big, -r), e + r)
    ELSE F64Pack(s, IF RoundsUp(big, r, sticky) THEN BigAdd(BigShr(big, r), <<1>>)
                    ELSE BigShr(big, r),
                 e + r)

\* s * big * 2^e (and a little more when sticky, which takes big of 55
\* digits or more), rounded to nearest, ties to even: to 53 digits, or to
\* fewer when the exponent would fall below MinExp.
F64Make(s, big, e, sticky) ==
    IF big = <<>> THEN SignedZero(s)
    ELSE F64RoundAt(s, big, e,
                    IF BigBitLen(big) - 53 > MinExp - e THEN BigBitLen(big) - 53
                    ELSE MinExp - e,
                    sticky)

\* the integer n
F64Int(n) == F64Make(IF n < 0 THEN -1 ELSE 1, BigOfInt(IF n < 0 THEN -n ELSE n), 0, FALSE)

\* -x
F64Neg(x) == [x EXCEPT !.s = IF x.kind = "nan" THEN 1 ELSE -x.s]

\* The sum of sa * am * 2^e and sb * bm * 2^e for am and bm above 0; a sum
\* that is exactly 0 is +0.
F64AddAligned(sa, am, sb, bm, e) ==
    IF sa = sb THEN F64Make(sa, BigAdd(am, bm), e, FALSE)
    ELSE IF BigCmp(am, bm) = 0 THEN Zero
    ELSE IF BigCmp(am, bm) > 0 THEN F64Make(sa, BigSub(am, bm), e, FALSE)
    ELSE F64Make(sb, BigSub(bm, am), e, FALSE)

\* a + b for finite a and b other than 0 with a.e >= b.e: b is below a
\* quarter of the last digit of a when the exponents differ by more than 55.
F64AddOrdered(a, b) ==
    IF a.e - b.e > 55 THEN a
    ELSE F64AddAligned(a.s, BigShl(a.m, a.e - b.e), b.s, b.m, b.e)

\* x + y
F64Add(x, y) ==
    IF IsNaN(x) \/ IsNaN(y) THEN NaN
    ELSE IF x.kind = "inf" THEN (IF y.kind = "inf" /\ y.s # x.s THEN NaN ELSE x)
    ELSE IF y.kind = "inf" THEN y
    ELSE IF x.m = <<>> THEN (IF y.m # <<>> \/ x.s = y.s THEN y ELSE Zero)
    ELSE IF y.m = <<>> THEN x
    ELSE IF x.e >= y.e THEN F64AddOrdered(x, y) ELSE F64AddOrdered(y, x)

\* x - y
F64Sub(x, y) == F64Add(x, F64Neg(y))

\* x * y
F64Mul(x, y) ==
    IF IsNaN(x) \/ IsNaN(y) THEN NaN
    ELSE IF x.kind = "inf" \/ y.kind = "inf"
    THEN (IF IsZero(x) \/ IsZero(y) THEN NaN ELSE Infinity(x.s * y.s))
    ELSE IF x.m = <<>> \/ y.m = <<>> THEN SignedZero(x.s * y.s)
    ELSE F64Make(x.s * y.s, BigMul(x.m, y.m), x.e + y.e, FALSE)

\* The quotient st of the significands with sign s and exponent e, rounded:
\* a remainder makes the quotient inexact.
F64Quot(s, st, e) == F64Make(s, BigTrim(st.q), e, st.r # <<>>)

\* The first digit (0 or 1) of the quotient of n by d, and what is left.
DivFirst(n, d) ==
    IF BigCmp(n, d) >= 0 THEN [q |-> <<1>>, r |-> BigSub(n, d)]
    ELSE [q |-> <<0>>, r |-> n]

\* The significand of a finite x other than 0 with 53 digits, and the
\* exponent that goes with it (below MinExp for a subnormal x).
F64Normalized(x) ==
    [m |-> BigShl(x.m, 53 - BigBitLen(x.m)), e |-> x.e - (53 - BigBitLen(x.m))]

\* The quotient of a by b with sign s: five digits of the quotient of the
\* significands, which is 57 or 58 binary digits.
F64DivNormalized(s, a, b) ==
    F64Quot(s,
            DivSteps(DivFirst(BigMulSmall(a.m, 8), BigMulSmall(b.m, 8)),
                     BigMulSmall(b.m, 8), 4),
            a.e - b.e - 56)

\* x / y
F64Div(x, y) ==
    IF IsNaN(x) \/ IsNaN(y) THEN NaN
    ELSE IF x.kind = "inf" THEN (IF y.kind = "inf" THEN NaN ELSE Infinity(x.s * y.s))
    ELSE IF y.kind = "inf" THEN SignedZero(x.s * y.s)
    ELSE IF y.m = <<>> THEN (IF x.m = <<>> THEN NaN ELSE Infinity(x.s * y.s))
    ELSE IF x.m = <<>> THEN SignedZero(x.s * y.s)
    ELSE F64DivNormalized(x.s * y.s, F64Normalized(x), F64Normalized(y))

\* -1, 0 or 1 as |x| is below, equal to or above |y|, for x and y other than
\* NaN
F64CmpMagnitude(x, y) ==
    IF x.kind = "inf" THEN (IF y.kind = "inf" THEN 0 ELSE 1)
    ELSE IF y.kind = "inf" THEN -1
    ELSE IF x.m = <<>> THEN (IF y.m = <<>> THEN 0 ELSE -1)
    ELSE IF y.m = <<>> THEN 1
    ELSE IF x.e # y.e THEN (IF x.e < y.e THEN -1 ELSE 1)
    ELSE BigCmp(x.m, y.m)

\* -1, 0 or 1 as x is below, equal to or above y (+0 and -0 are equal), and
\* 2 when x or y is NaN, which is neither.
F64Cmp(x, y) ==
    IF IsNaN(x) \/ IsNaN(y) THEN 2
    ELSE IF IsZero(x) /\ IsZero(y) THEN 0
    ELSE IF x.s # y.s THEN (IF x.s < y.s THEN -1 ELSE 1)
    ELSE x.s * F64CmpMagnitude(x, y)

\* x < y, x <= y, x > y, x >= y and x === y: all false with a NaN
F64Lt(x, y) == F64Cmp(x, y) = -1
F64Le(x, y) == F64Cmp(x, y) \in {-1, 0}
F64Gt(x, y) == F64Cmp(x, y) = 1
F64Ge(x, y) == F64Cmp(x, y) \in {0, 1}
F64Eq(x, y) == F64Cmp(x, y) = 0

\* Math.min(x, y) and Math.max(x, y): NaN when either is NaN, and -0 below +0
F64Min(x, y) ==
    IF IsNaN(x) \/ IsNaN(y) THEN NaN
    ELSE IF F64Lt(y, x) THEN y
    ELSE IF F64Lt(x, y) THEN x
    ELSE IF x.s = -1 THEN x ELSE y
F64Max(x, y) ==
    IF IsNaN(x) \/ IsNaN(y) THEN NaN
    ELSE IF F64Lt(x, y) THEN y
    ELSE IF F64Lt(y, x) THEN x
    ELSE IF x.s = 1 THEN x ELSE y

\* The value of the decimal literal n/d: the binary64 value nearest to it.
Float64(n, d) == F64Div(F64Int(n), F64Int(d))

One == F64Int(1)

\* Number.MIN_VALUE = 2^-1074, the smallest number above 0
MIN_VALUE == Finite(1, <<1>>, MinExp)

\* The decimal literal with x hundredths (Dec(30) is 0.3), for
\* -100 <= x <= 200.
DecTable == [x \in -100..200 |-> Float64(x, 100)]
Dec(x) == DecTable[x]

\* n * x for a count n (matchedRules.length * 0.2)
F64Times(n, x) == F64Mul(F64Int(n), x)

\* 0 <= x <= 1
InUnit(x) == F64Le(Zero, x) /\ F64Le(x, One)

\* x and y are the same number: equal, or both NaN
SameNumber(x, y) == F64Eq(x, y) \/ (IsNaN(x) /\ IsNaN(y))

\* d is 0 or a number of size below 2^-50
Tiny(d) == IsZero(d) \/ (d.kind = "fin" /\ d.e + BigBitLen(d.m) <= -50)

\* |x - y| is below 2^-50: x and y are the same number up to the rounding
\* of a handful of operations on values of size 1 at most.
Near(x, y) == Tiny(F64Sub(x, y))

-----------------------------------------------------------------------------
(* Numbers as strings: Number.prototype.toFixed(1) and parseFloat.  A      *)
(* string is a sequence of characters, each named by a string.            *)

DigitChars == <<"0", "1", "2", "3", "4", "5", "6", "7", "8", "9">>

IsDigit(c) == \E i \in 1..10 : DigitChars[i] = c

DigitValue(c) == (CHOOSE i \in 1..10 : DigitChars[i] = c) - 1

\* the characters of a sequence of decimal digits
DigitString(ds) == [i \in 1..Len(ds) |-> DigitChars[ds[i] + 1]]

\* The characters of the integer n >= 0.
IntString(n) == IF n = 0 THEN <<"0">> ELSE DigitString(BigDecimal(BigOfInt(n)))

\* The nearest integer to 10 * m * 2^e, the larger one of two (toFixed, step
\* "let n be an integer for which n / 10^f - x is as close to zero as
\* possible; if there are two such n, pick the larger n").
TenthsNearest(m, e) ==
    IF e >= 0 THEN BigShl(BigMulSmall(m, 10), e)
    ELSE BigAdd(BigShr(BigMulSmall(m, 10), -e),
                IF BigBit(BigMulSmall(m, 10), -e - 1) = 1 THEN <<1>> ELSE <<>>)

\* The digits ds of a number of tenths (two digits at least) with the point
\* before the last one.
FixedPoint(ds) == SubSeq(ds, 1, Len(ds) - 1) \o <<".">> \o <<ds[Len(ds)]>>

\* The digits of a number of tenths as toFixed(1) prints them.
FixedDigits(ds) ==
    FixedPoint(DigitString(IF Len(ds) = 0 THEN <<0, 0>>
                           ELSE IF Len(ds) = 1 THEN <<0>> \o ds ELSE ds))

\* -1, 0 or 1 as the number with the decimal digits a is below, equal to or
\* above the one with the digits b (neither starts with 0).
DecimalCmpAt(a, b, i) == IF a[i] < b[i] THEN -1 ELSE 1
DecimalCmp(a, b) ==
    IF Len(a) # Len(b) THEN (IF Len(a) < Len(b) THEN -1 ELSE 1)
    ELSE IF a = b THEN 0
    ELSE DecimalCmpAt(a, b, CHOOSE i \in 1..Len(a) :
                                a[i] # b[i] /\ \A j \in 1..(i - 1) : a[j] = b[j])

\* The digits ds plus one in the last place.
DecimalSuccAt(ds, j) ==
    [i \in 1..Len(ds) |-> IF i < j THEN ds[i] ELSE IF i = j THEN ds[i] + 1 ELSE 0]
DecimalSucc(ds) ==
    IF \A i \in 1..Len(ds) : ds[i] = 9 THEN <<1>> \o [i \in 1..Len(ds) |-> 0]
    ELSE DecimalSuccAt(ds, CHOOSE j \in 1..Len(ds) :
                               ds[j] # 9 /\ \A i \in (j + 1)..Len(ds) : ds[i] = 9)

\* ds followed by n zeros
PadZeros(ds, n) == ds \o [i \in 1..n |-> 0]

\* ds without its trailing zeros
StripTrailingZeros(ds) ==
    IF \A i \in 1..Len(ds) : ds[i] = 0 THEN <<>>
    ELSE SubSeq(ds, 1, CHOOSE i \in 1..Len(ds) :
                           ds[i] # 0 /\ \A j \in (i + 1)..Len(ds) : ds[j] = 0)

\* The decimal c is a number that rounds to the binary64 value whose
\* neighbours are halfway at lo and hi; the ends count when the significand
\* is even.
RoundsBack(c, lo, hi, even) ==
    IF even THEN DecimalCmp(lo, c) <= 0 /\ DecimalCmp(c, hi) <= 0
    ELSE DecimalCmp(lo, c) < 0 /\ DecimalCmp(c, hi) < 0

\* -1, 0 or 1 as the digits of d after the first k are below, equal to or
\* above one half of the place of digit k.
TailCmpHalf(d, k) ==
    IF k >= Len(d) THEN -1
    ELSE IF d[k + 1] # 5 THEN (IF d[k + 1] < 5 THEN -1 ELSE 1)
    ELSE IF \E i \in (k + 2)..Len(d) : d[i] # 0 THEN 1 ELSE 0

\* Of the two decimals with k digits around d, down and up, the one
\* Number::toString takes: the one that rounds back to the value, the nearer
\* one of two, the even one of two equally near.
ShortestOfTwo(d, k, down, up, lo, hi, even) ==
    IF ~RoundsBack(up, lo, hi, even) THEN down
    ELSE IF ~RoundsBack(down, lo, hi, even) THEN up
    ELSE IF TailCmpHalf(d, k) < 0 THEN down
    ELSE IF TailCmpHalf(d, k) > 0 THEN up
    ELSE IF d[k] % 2 = 0 THEN down ELSE up

\* The shortest decimal of k digits or more (followed by zeros) that rounds
\* back to the value with the digits d.
RECURSIVE ShortestFrom(_, _, _, _, _)
ShortestFrom(d, k, lo, hi, even) ==
    IF k >= Len(d) THEN d
    ELSE IF \/ RoundsBack(PadZeros(SubSeq(d, 1, k), Len(d) - k), lo, hi, even)
            \/ RoundsBack(PadZeros(DecimalSucc(SubSeq(d, 1, k)), Len(d) - k), lo, hi, even)
    THEN ShortestOfTwo(d, k, PadZeros(SubSeq(d, 1, k), Len(d) - k),
                       PadZeros(DecimalSucc(SubSeq(d, 1, k)), Len(d) - k), lo, hi, even)
    ELSE ShortestFrom(d, k + 1, lo, hi, even)

\* The digits ds of a decimal in the exponent form of Number::toString:
\* d.ddde+n with n + 1 the number of digits of ds.
ExponentForm(ds, sig) ==
    <<DigitChars[sig[1] + 1]>>
    \o (IF Len(sig) > 1 THEN <<".">> \o DigitString(Tail(sig)) ELSE <<>>)
    \o <<"e", "+">> \o IntString(Len(ds) - 1)

ExponentString(ds) == ExponentForm(ds, StripTrailingZeros(ds))

\* Half the distance from m * 2^e to the value below it, for e > 1.
HalfGapBelow(m, e) ==
    IF BigCmp(m, BigShl(<<1>>, 52)) = 0 THEN BigShl(<<1>>, e - 2) ELSE BigShl(<<1>>, e - 1)

\* Number::toString(x) for a finite x >= 10^21 (an integer, e >= 17): the
\* shortest decimal that rounds back to x, in exponent form.
LargeString(m, e) ==
    ExponentString(ShortestFrom(BigDecimal(BigShl(m, e)), 1,
                                BigDecimal(BigSub(BigShl(m, e), HalfGapBelow(m, e))),
                                BigDecimal(BigAdd(BigShl(m, e), BigShl(<<1>>, e - 1))),
                                m[1] % 2 = 0))

\* 10^21, which is a binary64 value
TenTo21 == F64Make(1, BigMulPow10(<<1>>, 21), 0, FALSE)

\* x.toFixed(1) for x >= 0 and for -0
ToFixed1Magnitude(x) ==
    IF x.kind = "inf" THEN <<"I", "n", "f", "i", "n", "i", "t", "y">>
    ELSE IF x.m = <<>> THEN <<"0", ".", "0">>
    ELSE IF F64CmpMagnitude(x, TenTo21) >= 0 THEN LargeString(x.m, x.e)
    ELSE FixedDigits(BigDecimal(TenthsNearest(x.m, x.e)))

\* x.toFixed(1)
ToFixed1(x) ==
    IF IsNaN(x) THEN <<"N", "a", "N">>
    ELSE IF F64Lt(x, Zero) THEN <<"-">> \o ToFixed1Magnitude(x)
    ELSE ToFixed1Magnitude(x)

\* The space separators (Unicode category Zs) other than the space and
\* U+00A0.
SpaceSeparators ==
    {"U+1680", "U+2000", "U+2001", "U+2002", "U+2003", "U+2004", "U+2005",
     "U+2006", "U+2007", "U+2008", "U+2009", "U+200A", "U+202F", "U+205F",
     "U+3000"}

\* White space and line terminators (StrWhiteSpaceChar): space, TAB, LF, CR,
\* U+000B, U+000C, U+00A0, U+FEFF ("BOM"), U+2028, U+2029 and the other
\* space separators.
IsStrWhiteSpace(c) ==
    c \in {" ", "TAB", "LF", "CR", "VT", "FF", "NBSP", "BOM", "LS", "PS"}
          \cup SpaceSeparators

\* s without the characters at its start that satisfy Skip
SkipWhile(s, Skip(_)) ==
    IF \A i \in 1..Len(s) : Skip(s[i]) THEN <<>>
    ELSE SubSeq(s, CHOOSE i \in 1..Len(s) : ~Skip(s[i]) /\ \A j \in 1..(i - 1) : Skip(s[j]),
                Len(s))

SkipSpaces(s) == SkipWhile(s, IsStrWhiteSpace)

\* The longest prefix of digits.
DigitPrefix(s) == SubSeq(s, 1, Len(s) - Len(SkipWhile(s, IsDigit)))

\* The number a short string of digits denotes, as an integer.
RECURSIVE SmallDigits(_)
SmallDigits(s) ==
    IF s = <<>> THEN 0
    ELSE 10 * SmallDigits(SubSeq(s, 1, Len(s) - 1)) + DigitValue(s[Len(s)])

\* The number a string of digits denotes: that of its first half with the
\* second half behind it.
RECURSIVE DigitsValue(_)
DigitsValue(s) ==
    IF Len(s) <= 4 THEN BigOfInt(SmallDigits(s))
    ELSE BigAdd(BigMulPow10(DigitsValue(SubSeq(s, 1, Len(s) \div 2)),
                            Len(s) - Len(s) \div 2),
                DigitsValue(SubSeq(s, (Len(s) \div 2) + 1, Len(s))))

\* s from character i on
From(s, i) == SubSeq(s, i, Len(s))

\* s starts with p
StartsWith(s, p) == Len(s) >= Len(p) /\ SubSeq(s, 1, Len(p)) = p

\* s without its leading "0" characters
StripZeroChars(s) == StripLeading(s, "0")

\* The value of the digits of an exponent, capped at 100000: a larger
\* exponent gives 0 or Infinity all the same.
ExponentValue(ds) ==
    IF Len(StripZeroChars(ds)) > 5 THEN 100000 ELSE SmallDigits(StripZeroChars(ds))

\* The value of the exponent part at the start of s (e or E, an optional
\* sign, digits); 0 when s does not start with one.
ExponentPart(s) ==
    IF s = <<>> \/ Head(s) \notin {"e", "E"} THEN 0
    ELSE IF Len(s) >= 2 /\ s[2] \in {"+", "-"}
    THEN (IF s[2] = "-" THEN -1 ELSE 1) * ExponentValue(DigitPrefix(From(s, 3)))
    ELSE ExponentValue(DigitPrefix(From(s, 2)))

\* s * st.q * 2^e, rounded, for the quotient st of a division
F64Scaled(s, st, e) == F64Make(s, st.q, e, st.inexact)

\* The binary64 value nearest to s * ds * 10^x for the digits ds (no leading
\* zero).  For x < 0 the quotient by 10^-x is taken of the digits times
\* 2^(56 - 4x), which leaves it 56 binary digits at least.
DecimalValue(s, ds, x) ==
    IF ds = <<>> THEN SignedZero(s)
    ELSE IF Len(ds) + x > 310 THEN Infinity(s)
    ELSE IF Len(ds) + x < -330 THEN SignedZero(s)
    ELSE IF x >= 0 THEN F64Make(s, BigMulPow10(DigitsValue(ds), x), 0, FALSE)
    ELSE F64Scaled(s,
                   BigDivPow10([q |-> BigShl(DigitsValue(ds), 56 - 4 * x),
                                inexact |-> FALSE], -x),
                   4 * x - 56)

\* The literal with the sign s, the integer digits ip and the fraction
\* digits fp, followed by rest: NaN without a digit.
ParseDigits(s, ip, fp, rest) ==
    IF ip = <<>> /\ fp = <<>> THEN NaN
    ELSE DecimalValue(s, StripZeroChars(ip \o fp), ExponentPart(rest) - Len(fp))

\* The same for the fraction digits at the start of t.
ParseFraction(s, ip, t) == ParseDigits(s, ip, DigitPrefix(t), From(t, Len(DigitPrefix(t)) + 1))

\* The literal with the sign s and the integer digits ip, followed by t.
ParsePoint(s, ip, t) ==
    IF t # <<>> /\ Head(t) = "." THEN ParseFraction(s, ip, Tail(t))
    ELSE ParseDigits(s, ip, <<>>, t)

\* The literal u with the sign s.
ParseUnsigned(s, u) ==
    IF StartsWith(u, <<"I", "n", "f", "i", "n", "i", "t", "y">>) THEN Infinity(s)
    ELSE ParsePoint(s, DigitPrefix(u), From(u, Len(DigitPrefix(u)) + 1))

ParseSigned(t) ==
    IF t # <<>> /\ Head(t) = "-" THEN ParseUnsigned(-1, Tail(t))
    ELSE IF t # <<>> /\ Head(t) = "+" THEN ParseUnsigned(1, Tail(t))
    ELSE ParseUnsigned(1, t)

\* parseFloat: skips leading white space and reads the longest prefix that is
\* a decimal literal (a sign, Infinity or digits, a point, digits, an
\* exponent), whatever follows it; NaN when there is none, and otherwise the
\* number nearest to the literal.
parseFloat(s) == ParseSigned(SkipSpaces(s))

-----------------------------------------------------------------------------
(* Sequence helpers *)

Range(s) == {s[i] : i \in 1..Len(s)}

SeqsUpTo(S, n) == UNION {[1..k -> S] : k \in 0..n}

\* The sum of a sequence of numbers, added left to right from 0 (the loops
\* `total += x` and reduce((sum, x) => sum + x, 0)).
RECURSIVE F64Sum(_)
F64Sum(s) ==
    IF s = <<>> THEN Zero
    ELSE F64Add(F64Sum(SubSeq(s, 1, Len(s) - 1)), s[Len(s)])

-----------------------------------------------------------------------------
(* ScoringEngine  (src/src/scoring/engine.ts) *)

\* Compiled-in defaults of the three weights. The mutant gives signals full
\* weight when rules exist.
DefaultWeightsMutant ==
    [maxSignalWeightWithRules |-> Dec(100),
     signalWeightNoRules      |-> Dec(100),
     signalConfidenceWeight   |-> Dec(20)]
DefaultWeights ==
    [maxSignalWeightWithRules |-> Dec(20),
     signalWeightNoRules      |-> Dec(100),
     signalConfidenceWeight   |-> Dec(20)]

\* aggregateRuleScores: add the scores of the matched entries, cap at 1.0.
EffectScore(ev) ==
    IF ev.matched /\ ev.effect # Undefined THEN ev.effect.score ELSE Zero

\* The mutant of aggregateRuleScores leaves out the scores above 1.
aggregateRuleScoresMutant(ev) ==
    F64Min(One, F64Sum([i \in 1..Len(ev) |->
                          IF F64Gt(EffectScore(ev[i]), One) THEN Zero
                          ELSE EffectScore(ev[i])]))
aggregateRuleScores(ev) ==
    F64Min(One, F64Sum([i \in 1..Len(ev) |-> EffectScore(ev[i])]))

NoveltyTimesConfidence(s) == F64Mul(s.noveltyScore, s.confidence)
SignalConfidence(s) == s.confidence

\* calculateSignalAdjustment. The mutant takes the plain mean of the novelty
\* scores instead of the confidence-weighted one.
calculateSignalAdjustmentMutant(sigs, hasRules, w) ==
    IF Len(sigs) = 0 THEN Zero
    ELSE LET totalNovelty == F64Sum([i \in 1..Len(sigs) |-> sigs[i].noveltyScore])
             totalConfidence == F64Sum([i \in 1..Len(sigs) |-> SignalConfidence(sigs[i])])
         IN  IF IsZero(totalConfidence) THEN Zero
             ELSE F64Mul(F64Div(totalNovelty, F64Int(Len(sigs))),
                       IF hasRules THEN w.maxSignalWeightWithRules
                       ELSE w.signalWeightNoRules)
calculateSignalAdjustment(sigs, hasRules, w) ==
    IF Len(sigs) = 0 THEN Zero
    ELSE LET weightedNovelty == F64Sum([i \in 1..Len(sigs) |-> NoveltyTimesConfidence(sigs[i])])
             totalConfidence == F64Sum([i \in 1..Len(sigs) |-> SignalConfidence(sigs[i])])
         IN  IF IsZero(totalConfidence) THEN Zero
             ELSE LET avgNovelty == F64Div(weightedNovelty, totalConfidence)
                      signalWeight == IF hasRules THEN w.maxSignalWeightWithRules
                                      ELSE w.signalWeightNoRules
                  IN  F64Mul(avgNovelty, signalWeight)

\* signals.reduce((sum, s) => sum + s.confidence, 0) / signals.length
avgSignalConfidence(sigs) ==
    F64Div(F64Sum([i \in 1..Len(sigs) |-> SignalConfidence(sigs[i])]), F64Int(Len(sigs)))

IsMatched(ev) == ev.matched
\* The severity test of the boost; its mutant takes critical only.
IsHighSeverityMutant(ev) ==
    /\ ev.effect # Undefined
    /\ ev.effect.severity \in {"critical"}
IsHighSeverity(ev) ==
    /\ ev.effect # Undefined
    /\ ev.effect.severity \in {"high", "critical"}

\* A variant of calculateConfidence that takes the signal confidence off
\* the confidence of the matched rules.
calculateConfidenceSignMutant(ev, sigs, hasRules, w) ==
    LET matchedRules == SelectSeq(ev, IsMatched)
        signalConfidence ==
            IF Len(sigs) > 0
            THEN F64Mul(avgSignalConfidence(sigs), w.signalConfidenceWeight)
            ELSE Zero
    IN  IF ~hasRules
        THEN IF Len(sigs) = 0 THEN Dec(30)
             ELSE F64Min(One, avgSignalConfidence(sigs))
        ELSE IF Len(matchedRules) = 0
        THEN F64Min(One, F64Add(Dec(30), signalConfidence))
        ELSE LET ruleConfidence == F64Min(One, F64Times(Len(matchedRules), Dec(20)))
                 highSeverityCount == Len(SelectSeq(matchedRules, IsHighSeverity))
                 severityBoost == F64Min(Dec(30), F64Times(highSeverityCount, Dec(10)))
             IN  F64Min(One, F64Add(F64Add(ruleConfidence, severityBoost),
                                F64Neg(signalConfidence)))

\* calculateConfidence. The mutant does not cap the severity boost at 0.3.
calculateConfidenceMutant(ev, sigs, hasRules, w) ==
    LET matchedRules == SelectSeq(ev, IsMatched)
        signalConfidence ==
            IF Len(sigs) > 0
            THEN F64Mul(avgSignalConfidence(sigs), w.signalConfidenceWeight)
            ELSE Zero
    IN  IF ~hasRules
        THEN IF Len(sigs) = 0 THEN Dec(30)
             ELSE F64Min(One, avgSignalConfidence(sigs))
        ELSE IF Len(matchedRules) = 0
        THEN F64Min(One, F64Add(Dec(30), signalConfidence))
        ELSE LET ruleConfidence == F64Min(One, F64Times(Len(matchedRules), Dec(20)))
                 highSeverityCount == Len(SelectSeq(matchedRules, IsHighSeverity))
                 severityBoost == F64Times(highSeverityCount, Dec(10))
             IN  F64Min(One, F64Add(F64Add(ruleConfidence, severityBoost), signalConfidence))
calculateConfidence(ev, sigs, hasRules, w) ==
    LET matchedRules == SelectSeq(ev, IsMatched)
        signalConfidence ==
            IF Len(sigs) > 0
            THEN F64Mul(avgSignalConfidence(sigs), w.signalConfidenceWeight)
            ELSE Zero
    IN  IF ~hasRules
        THEN IF Len(sigs) = 0 THEN Dec(30)
             ELSE F64Min(One, avgSignalConfidence(sigs))
        ELSE IF Len(matchedRules) = 0
        THEN F64Min(One, F64Add(Dec(30), signalConfidence))
        ELSE LET ruleConfidence == F64Min(One, F64Times(Len(matchedRules), Dec(20)))
                 highSeverityCount == Len(SelectSeq(matchedRules, IsHighSeverity))
                 severityBoost == F64Min(Dec(30), F64Times(highSeverityCount, Dec(10)))
             IN  F64Min(One, F64Add(F64Add(ruleConfidence, severityBoost), signalConfidence))

\* The final clamp of calculate: Math.max(0.0, Math.min(1.0, x)).
ClampUnit(x) == F64Max(Zero, F64Min(One, x))

\* An environment variable is [set |-> FALSE] when absent and otherwise
\* [set |-> TRUE, value |-> its string]. The fields of env carry the names
\* of the weights: maxSignalWeightWithRules is
\* AGENT_FIREWALL_SIGNAL_WEIGHT_WITH_RULES, signalWeightNoRules is
\* AGENT_FIREWALL_SIGNAL_WEIGHT_NO_RULES and signalConfidenceWeight is
\* AGENT_FIREWALL_SIGNAL_CONFIDENCE_WEIGHT.
Unset == [set |-> FALSE]
EnvString(s) == [set |-> TRUE, value |-> s]

NoEnv ==
    [maxSignalWeightWithRules |-> Unset, signalWeightNoRules |-> Unset,
     signalConfidenceWeight |-> Unset]

\* parseEnvFloat
parseEnvFloat(value, defaultValue) ==
    IF ~value.set THEN defaultValue
    ELSE LET parsed == parseFloat(value.value)
         IN  IF IsNaN(parsed) THEN defaultValue ELSE parsed

\* validateWeight(name, value, 0, 1) returns; otherwise it throws.
validateWeight(value) == ~(F64Lt(value, Zero) \/ F64Gt(value, One))

\* new ScoringEngine(): the three weights it reads, and whether the
\* constructor returns.
ScoringEngineWeights(e) ==
    [maxSignalWeightWithRules |->
         parseEnvFloat(e.maxSignalWeightWithRules, DefaultWeights.maxSignalWeightWithRules),
     signalWeightNoRules |->
         parseEnvFloat(e.signalWeightNoRules, DefaultWeights.signalWeightNoRules),
     signalConfidenceWeight |->
         parseEnvFloat(e.signalConfidenceWeight, DefaultWeights.signalConfidenceWeight)]

ScoringEngineReturns(e) ==
    LET w == ScoringEngineWeights(e)
    IN  /\ validateWeight(w.maxSignalWeightWithRules)
        /\ validateWeight(w.signalWeightNoRules)
        /\ validateWeight(w.signalConfidenceWeight)

\* calculate. The mutant weighs the signals as if no rule were registered.
calculateMutant(ev, sigs, w) ==
    LET ruleScore == aggregateRuleScores(ev)
        hasRules == Len(ev) > 0
        signalAdjustment == calculateSignalAdjustment(sigs, FALSE, w)
        riskScore == IF hasRules THEN F64Min(One, F64Add(ruleScore, signalAdjustment))
                     ELSE signalAdjustment
        confidence == calculateConfidence(ev, sigs, hasRules, w)
    IN  [riskScore |-> ClampUnit(riskScore), confidence |-> ClampUnit(confidence)]
calculate(ev, sigs, w) ==
    LET ruleScore == aggregateRuleScores(ev)
        hasRules == Len(ev) > 0
        signalAdjustment == calculateSignalAdjustment(sigs, hasRules, w)
        riskScore == IF hasRules THEN F64Min(One, F64Add(ruleScore, signalAdjustment))
                     ELSE signalAdjustment
        confidence == calculateConfidence(ev, sigs, hasRules, w)
    IN  [riskScore |-> ClampUnit(riskScore), confidence |-> ClampUnit(confidence)]

-----------------------------------------------------------------------------
(* DefaultPolicy  (src/src/policy/default.ts) *)

\* x ?? d
Coalesce(x, d) == IF x = Undefined THEN d ELSE x

\* new DefaultPolicy(overrides): the thresholds field it sets. The constructor
\* has no other statement; it cannot raise.
DefaultPolicyConstructor(o) ==
    [warn       |-> Coalesce(o.warn, Dec(30)),
     block      |-> Coalesce(o.block, Dec(70)),
     quarantine |-> Coalesce(o.quarantine, Dec(90))]

\* A variant of DefaultPolicy.evaluate whose last comparison is strict.
DefaultPolicyEvaluateStrictMutant(th, riskScore, confidence) ==
    IF F64Lt(confidence, Dec(50)) /\ F64Gt(riskScore, th.warn) THEN "warn"
    ELSE IF F64Ge(riskScore, th.quarantine) THEN "quarantine"
    ELSE IF F64Ge(riskScore, th.block) THEN "block"
    ELSE IF F64Gt(riskScore, th.warn) THEN "warn"
    ELSE "allow"

\* DefaultPolicy.evaluate. The mutant's gate also takes confidence 0.5.
DefaultPolicyEvaluateMutant(th, riskScore, confidence) ==
    IF F64Le(confidence, Dec(50)) /\ F64Gt(riskScore, th.warn) THEN "warn"
    ELSE IF F64Ge(riskScore, th.quarantine) THEN "quarantine"
    ELSE IF F64Ge(riskScore, th.block) THEN "block"
    ELSE IF F64Ge(riskScore, th.warn) THEN "warn"
    ELSE "allow"
DefaultPolicyEvaluate(th, riskScore, confidence) ==
    IF F64Lt(confidence, Dec(50)) /\ F64Gt(riskScore, th.warn) THEN "warn"
    ELSE IF F64Ge(riskScore, th.quarantine) THEN "quarantine"
    ELSE IF F64Ge(riskScore, th.block) THEN "block"
    ELSE IF F64Ge(riskScore, th.warn) THEN "warn"
    ELSE "allow"

\* DefaultPolicy.getThresholds: a copy of the thresholds field.
getThresholds(th) == [warn |-> th.warn, block |-> th.block, quarantine |-> th.quarantine]

-----------------------------------------------------------------------------
(* NormalizationPipeline  (src/unnamed/part_003, lines 75-143) *)
(* A string is a sequence of characters; a character is named by a string: *)
(* "a" and "e" the Latin letters, " " space, "TAB", "LF", "CR", "ACUTE"    *)
(* the combining acute accent U+0301, "A_ACUTE" U+00E1, "E_ACUTE" U+00E9,  *)
(* "CYR" the Cyrillic letter U+044F, "FFFD" the replacement character,     *)
(* "BOM" U+FEFF; the brackets "(", ")", "[", "]", "{", "}" are named by    *)
(* themselves.                                                             *)

Alphabet ==
    {"a", " ", "TAB", "LF", "CR", "e", "ACUTE", "A_ACUTE", "E_ACUTE", "CYR", "FFFD", "BOM"}

\* The UTF-16 code unit of each character (Array.prototype.sort orders by it).
CodeUnit(c) ==
    CASE c = "TAB" -> 9 [] c = "LF" -> 10 [] c = "CR" -> 13 [] c = " " -> 32
      [] c = "a" -> 97 [] c = "e" -> 101 [] c = "A_ACUTE" -> 225
      [] c = "E_ACUTE" -> 233
      [] c = "ACUTE" -> 769 [] c = "CYR" -> 1103 [] c = "FFFD" -> 65533
      [] c = "BOM" -> 65279
      [] c = "(" -> 40 [] c = ")" -> 41 [] c = "[" -> 91 [] c = "]" -> 93
      [] c = "{" -> 123 [] c = "}" -> 125

\* The precomposed character of a letter followed by U+0301, if there is one.
Composed(c) ==
    CASE c = "a" -> "A_ACUTE" [] c = "e" -> "E_ACUTE" [] OTHER -> "none"

\* String.prototype.normalize('NFC') on this alphabet: a letter followed by
\* U+0301 composes with it (a to U+00E1, e to U+00E9); every other character,
\* a second or an isolated U+0301 among them, stays.
RECURSIVE NFC(_)
NFC(s) ==
    IF s = <<>> THEN <<>>
    ELSE IF Len(s) >= 2 /\ Composed(s[1]) # "none" /\ s[2] = "ACUTE"
         THEN <<Composed(s[1])>> \o NFC(SubSeq(s, 3, Len(s)))
         ELSE <<Head(s)>> \o NFC(Tail(s))

\* .replace(/\r\n/g, '\n')
RECURSIVE ReplaceCRLF(_)
ReplaceCRLF(s) ==
    IF s = <<>> THEN <<>>
    ELSE IF Len(s) >= 2 /\ s[1] = "CR" /\ s[2] = "LF"
         THEN <<"LF">> \o ReplaceCRLF(SubSeq(s, 3, Len(s)))
         ELSE <<Head(s)>> \o ReplaceCRLF(Tail(s))

\* .replace(/\r/g, '\n'). The mutant removes the carriage returns.
ReplaceCRMutant(s) == SelectSeq(s, LAMBDA c : c # "CR")
ReplaceCR(s) == [i \in 1..Len(s) |-> IF s[i] = "CR" THEN "LF" ELSE s[i]]

IsHoriz(c) == c \in {" ", "TAB"}

\* s without its leading run of spaces and tabs
RECURSIVE SkipHoriz(_)
SkipHoriz(s) ==
    IF s # <<>> /\ IsHoriz(Head(s)) THEN SkipHoriz(Tail(s)) ELSE s

\* .replace(/[ \t]+/g, ' ')
RECURSIVE CollapseHoriz(_)
CollapseHoriz(s) ==
    IF s = <<>> THEN <<>>
    ELSE IF IsHoriz(Head(s)) THEN <<" ">> \o CollapseHoriz(SkipHoriz(s))
         ELSE <<Head(s)>> \o CollapseHoriz(Tail(s))

\* .replace(/[ \t]*\n[ \t]*/g, '\n'). The mutant removes the spaces and tabs
\* before a line break only.
RECURSIVE TrimAroundLFMutant(_)
TrimAroundLFMutant(s) ==
    IF s = <<>> THEN <<>>
    ELSE LET r == SkipHoriz(s)
         IN  IF r # <<>> /\ Head(r) = "LF"
             THEN <<"LF">> \o TrimAroundLFMutant(Tail(r))
             ELSE <<Head(s)>> \o TrimAroundLFMutant(Tail(s))
RECURSIVE TrimAroundLF(_)
TrimAroundLF(s) ==
    IF s = <<>> THEN <<>>
    ELSE LET r == SkipHoriz(s)
         IN  IF r # <<>> /\ Head(r) = "LF"
             THEN <<"LF">> \o TrimAroundLF(SkipHoriz(Tail(r)))
             ELSE <<Head(s)>> \o TrimAroundLF(Tail(s))

\* The characters String.prototype.trim removes: white space and line
\* terminators, U+FEFF among them.
IsTrimmed(c) == IsStrWhiteSpace(c)

RECURSIVE TrimStart(_)
TrimStart(s) == IF s # <<>> /\ IsTrimmed(Head(s)) THEN TrimStart(Tail(s)) ELSE s

\* The mutant of TrimEnd removes one character at most.
TrimEndMutant(s) ==
    IF s # <<>> /\ IsTrimmed(s[Len(s)]) THEN SubSeq(s, 1, Len(s) - 1) ELSE s
RECURSIVE TrimEnd(_)
TrimEnd(s) ==
    IF s # <<>> /\ IsTrimmed(s[Len(s)]) THEN TrimEnd(SubSeq(s, 1, Len(s) - 1)) ELSE s

\* String.prototype.trim
Trim(s) == TrimEnd(TrimStart(s))

\* detectEncoding
detectEncoding(text) == "utf-8"

\* The elements of a finite set of characters in ascending code-unit order.
RECURSIVE SortChars(_)
SortChars(S) ==
    IF S = {} THEN <<>>
    ELSE LET m == CHOOSE c \in S : \A d \in S : CodeUnit(c) <= CodeUnit(d)
         IN  <<m>> \o SortChars(S \ {m})

\* extractCharacterSet
extractCharacterSet(text) == SortChars(Range(text))

\* normalize
normalize(input) ==
    LET nfc == NFC(input)
        whitespaceNormalized ==
            Trim(TrimAroundLF(CollapseHoriz(ReplaceCR(ReplaceCRLF(nfc)))))
    IN  [original     |-> input,
         normalized   |-> whitespaceNormalized,
         encoding     |-> detectEncoding(whitespaceNormalized),
         length       |-> Len(whitespaceNormalized),
         characterSet |-> extractCharacterSet(whitespaceNormalized)]

-----------------------------------------------------------------------------
(* Rules  (src/src/rules/base.ts, src/unnamed/part_003, part_002) *)
(* A registered rule is named by its class.                               *)

\* HomoglyphRule.condition: a character of U+0400-04FF, U+2000-206F or U+FEFF
HomoglyphCondition(ni) ==
    \E i \in 1..Len(ni.normalized) : ni.normalized[i] \in {"CYR", "BOM"}

\* MixedEncodingRule.condition: U+FFFD, a C0 control character other than
\* TAB, LF and CR, or U+FEFF
MixedEncodingCondition(ni) ==
    \E i \in 1..Len(ni.normalized) : ni.normalized[i] \in {"FFFD", "BOM"}

\* ExcessiveNestingRule.maxNestingDepth
maxNestingDepth == 5

IsOpener(c) == c \in {"(", "[", "{"}
IsCloser(c) == c \in {")", "]", "}"}

\* The loop of ExcessiveNestingRule.condition over the rest of the text: the
\* value of maxDepth when it ends.
RECURSIVE NestingScan(_, _, _)
NestingScan(text, currentDepth, maxDepth) ==
    IF text = <<>> THEN maxDepth
    ELSE IF IsOpener(Head(text))
         THEN NestingScan(Tail(text), currentDepth + 1,
                          IF currentDepth + 1 > maxDepth THEN currentDepth + 1
                          ELSE maxDepth)
    ELSE IF IsCloser(Head(text))
         THEN NestingScan(Tail(text),
                          IF currentDepth - 1 > 0 THEN currentDepth - 1 ELSE 0,
                          maxDepth)
    ELSE NestingScan(Tail(text), currentDepth, maxDepth)

\* A scan whose counter is not held at 0.
RECURSIVE NestingScanNoFloor(_, _, _)
NestingScanNoFloor(text, currentDepth, maxDepth) ==
    IF text = <<>> THEN maxDepth
    ELSE IF IsOpener(Head(text))
         THEN NestingScanNoFloor(Tail(text), currentDepth + 1,
                                 IF currentDepth + 1 > maxDepth THEN currentDepth + 1
                                 ELSE maxDepth)
    ELSE IF IsCloser(Head(text))
         THEN NestingScanNoFloor(Tail(text), currentDepth - 1, maxDepth)
    ELSE NestingScanNoFloor(Tail(text), currentDepth, maxDepth)

\* ExcessiveNestingRule.condition. The mutant lets the counter go below 0.
ExcessiveNestingConditionMutant(ni) ==
    NestingScanNoFloor(ni.normalized, 0, 0) > maxNestingDepth
ExcessiveNestingCondition(ni) ==
    NestingScan(ni.normalized, 0, 0) > maxNestingDepth

RuleClasses == {"HomoglyphRule", "MixedEncodingRule"}

RuleId(rule) ==
    CASE rule = "HomoglyphRule" -> "encoding.homoglyph"
      [] rule = "MixedEncodingRule" -> "encoding.mixed"
      [] rule = "ExcessiveNestingRule" -> "structural.excessive-nesting"

RuleCondition(rule, ni) ==
    CASE rule = "HomoglyphRule" -> HomoglyphCondition(ni)
      [] rule = "MixedEncodingRule" -> MixedEncodingCondition(ni)
      [] rule = "ExcessiveNestingRule" -> ExcessiveNestingCondition(ni)

\* getEffect
RuleGetEffect(rule) ==
    CASE rule = "HomoglyphRule" ->
            [score |-> Dec(30), class |-> "homoglyph-attack", severity |-> "high"]
      [] rule = "MixedEncodingRule" ->
            [score |-> Dec(20), class |-> "encoding-anomaly", severity |-> "medium"]
      [] rule = "ExcessiveNestingRule" ->
            [score |-> Dec(15), class |-> "structural-anomaly", severity |-> "medium"]

\* getExplanation
RuleGetExplanation(rule, ni) ==
    CASE rule = "HomoglyphRule" ->
            <<"Unicode homoglyph or zero-width characters detected">>
      [] rule = "MixedEncodingRule" ->
            <<"Encoding anomalies detected (replacement characters, BOM, etc.)">>
      [] rule = "ExcessiveNestingRule" ->
            <<"Excessive nesting detected (depth > 5)">>

\* BaseRule.evaluate. An absent explanation is Undefined, a present one is
\* the one-element tuple of its text. The mutant asks for the effect whether
\* the rule matched or not.
BaseRuleEvaluateMutant(rule, ni) ==
    LET matched == RuleCondition(rule, ni)
    IN  [ruleId      |-> RuleId(rule),
         matched     |-> matched,
         effect      |-> RuleGetEffect(rule),
         explanation |-> IF matched THEN RuleGetExplanation(rule, ni) ELSE Undefined]
BaseRuleEvaluate(rule, ni) ==
    LET matched == RuleCondition(rule, ni)
    IN  [ruleId      |-> RuleId(rule),
         matched     |-> matched,
         effect      |-> IF matched THEN RuleGetEffect(rule) ELSE Undefined,
         explanation |-> IF matched THEN RuleGetExplanation(rule, ni) ELSE Undefined]

\* A rule supplied by the caller (any implementation of the Rule interface)
\* whose evaluate raises.
RuleEvaluateRaises(rule) == rule = "ThrowingRule"

\* RuleEngine.evaluate raises when the evaluate of one of its rules does:
\* Array.prototype.map does not catch.
RuleEngineEvaluateRaises(rs) == \E i \in 1..Len(rs) : RuleEvaluateRaises(rs[i])

\* RuleEngine.evaluate: one evidence entry per rule, in registration order.
RuleEngineEvaluate(rs, ni) == [i \in 1..Len(rs) |-> BaseRuleEvaluate(rs[i], ni)]

\* InstructionOverrideRule.getEffect and SystemAccessRule.getEffect
InstructionOverrideEffect ==
    [score |-> Dec(40), class |-> "instruction-injection", severity |-> "high"]

SystemAccessEffect ==
    [score |-> Dec(50), class |-> "system-access-attempt", severity |-> "critical"]

\* The ids of the eight built-in rules and getEffect of each.
BuiltinRuleIds ==
    {"structural.excessive-nesting", "structural.instruction-override",
     "linguistic.language-switching", "linguistic.special-character-density",
     "contextual.persona-injection", "contextual.system-access",
     "encoding.homoglyph", "encoding.mixed"}

BuiltinEffect(id) ==
    CASE id = "structural.excessive-nesting" ->
            [score |-> Dec(15), class |-> "structural-anomaly", severity |-> "medium"]
      [] id = "structural.instruction-override" -> InstructionOverrideEffect
      [] id = "linguistic.language-switching" ->
            [score |-> Dec(20), class |-> "linguistic-anomaly", severity |-> "medium"]
      [] id = "linguistic.special-character-density" ->
            [score |-> Dec(25), class |-> "encoding-suspicion", severity |-> "medium"]
      [] id = "contextual.persona-injection" ->
            [score |-> Dec(35), class |-> "persona-injection", severity |-> "high"]
      [] id = "contextual.system-access" -> SystemAccessEffect
      [] id = "encoding.homoglyph" -> RuleGetEffect("HomoglyphRule")
      [] id = "encoding.mixed" -> RuleGetEffect("MixedEncodingRule")

\* getExplanation of each built-in rule.
BuiltinExplanation(id) ==
    CASE id = "structural.excessive-nesting" ->
            RuleGetExplanation("ExcessiveNestingRule", Undefined)
      [] id = "structural.instruction-override" ->
            <<"Instruction override pattern detected">>
      [] id = "linguistic.language-switching" ->
            <<"Rapid language/script switching detected">>
      [] id = "linguistic.special-character-density" ->
            <<"Special character density exceeds 30%">>
      [] id = "contextual.persona-injection" ->
            <<"Persona or role injection pattern detected">>
      [] id = "contextual.system-access" ->
            <<"System access or command execution pattern detected">>
      [] id = "encoding.homoglyph" -> RuleGetExplanation("HomoglyphRule", Undefined)
      [] id = "encoding.mixed" -> RuleGetExplanation("MixedEncodingRule", Undefined)

\* The evidence entry of a built-in rule that matched.
BuiltinMatch(id) ==
    [ruleId |-> id, matched |-> TRUE, effect |-> BuiltinEffect(id),
     explanation |-> BuiltinExplanation(id)]

-----------------------------------------------------------------------------
(* Intelligence providers  (src/unnamed/part_004, part_000, src/src/index.ts) *)
(* A provider is [id, enabled, kind, behaviour].  For kind "custom" (any   *)
(* implementation of the IntelligenceProvider interface) the behaviour is  *)
(* what analyze does; for kind "byom" it is what the user's modelFn does.  *)
(* A behaviour is [type |-> "throw"] (raises before returning a promise),  *)
(* [type |-> "reject"] or [type |-> "resolve", value |-> a signal].        *)

MakeSignal(n, c, id) ==
    [noveltyScore |-> n, predictedClasses |-> <<>>, confidence |-> c, modelId |-> id]

\* The neutral signal both the providers and the firewall substitute.
NeutralSignal(id) == MakeSignal(Zero, Zero, id)

\* SignalSchema.parse succeeds (the fields have the right types in the model).
SignalSchemaValid(s) == InUnit(s.noveltyScore) /\ InUnit(s.confidence)

Throws == [type |-> "throw"]
Rejects == [type |-> "reject"]
Resolves(v) == [type |-> "resolve", value |-> v]

\* BYOMProvider.analyze: a disabled provider raises inside the async method,
\* so its promise rejects; for an enabled one every failure of modelFn and
\* every schema-invalid result becomes the neutral signal.
BYOMAnalyze(p) ==
    IF ~p.enabled THEN Rejects
    ELSE IF p.behaviour.type = "resolve" /\ SignalSchemaValid(p.behaviour.value)
    THEN Resolves(p.behaviour.value)
    ELSE Resolves(NeutralSignal(p.id))

\* provider.analyze(normalizedInput, context, fullMetadata): how the call ends.
ProviderAnalyze(p) == IF p.kind = "byom" THEN BYOMAnalyze(p) ELSE p.behaviour

-----------------------------------------------------------------------------
(* AgentFirewall  (src/unnamed/part_005) *)

\* The async arrow function mapped over the enabled providers: how its
\* promise settles. A raised or rejected analyze is caught and replaced by
\* the neutral signal; a resolved value is returned as it is. Without the
\* try/catch (the mutant) the promise rejects when analyze fails.
SafeAnalyzeMutant(p) ==
    LET r == ProviderAnalyze(p)
    IN  IF r.type = "resolve" THEN r ELSE Rejects
SafeAnalyze(p) ==
    LET r == ProviderAnalyze(p)
    IN  IF r.type = "resolve" THEN r ELSE Resolves(NeutralSignal(p.id))

IsEnabled(p) == p.enabled

\* this.intelligenceProviders.filter((p) => p.enabled)
enabledProviders(ps) == SelectSeq(ps, IsEnabled)

\* gatherIntelligenceSignals: the value its promise resolves to when every
\* mapped promise resolves, in the order of enabledProviders.
gatherIntelligenceSignals(ps) ==
    LET en == enabledProviders(ps)
    IN  [i \in 1..Len(en) |-> SafeAnalyze(en[i]).value]

\* (x * 100).toFixed(1): the characters of the string.
PercentFixed1(x) == ToFixed1(F64Mul(x, F64Int(100)))

\* if (ev.explanation): the explanation is present and not the empty string.
HasExplanation(ev) == ev.explanation # Undefined /\ ev.explanation # <<"">>

\* generateExplanation: the lines that are joined with '\n'.
generateExplanation(ev, sigs, riskScore, confidence, act) ==
    LET matchedRules == SelectSeq(ev, IsMatched)
        explained == SelectSeq(matchedRules, HasExplanation)
    IN  <<<<"Risk score", PercentFixed1(riskScore)>>,
          <<"Confidence", PercentFixed1(confidence)>>,
          <<"Action", act>>>>
        \o (IF Len(matchedRules) > 0
            THEN <<<<"Matched rule(s)", Len(matchedRules)>>>>
                 \o [i \in 1..Len(explained) |-> <<"-", explained[i].explanation[1]>>]
            ELSE <<>>)
        \o (IF Len(sigs) > 0
            THEN <<<<"Intelligence signals", Len(sigs)>>>>
                 \o [i \in 1..Len(sigs) |->
                        <<sigs[i].modelId, PercentFixed1(sigs[i].noveltyScore),
                          PercentFixed1(sigs[i].confidence)>>]
            ELSE <<>>)

NoCall == [state |-> "idle", count |-> 0, result |-> Undefined]

\* evaluate is called: a fresh activation with unset locals.
CallEvaluate(p) ==
    /\ pc \in {"idle", "done", "raised"}
    /\ pc' = "normalize"
    /\ prompt' = p
    /\ normalizedInput' = Undefined
    /\ evidence' = <<>>
    /\ calls' = [i \in 1..Len(providers) |-> NoCall]
    /\ signals' = <<>>
    /\ score' = Undefined
    /\ action' = "none"
    /\ decision' = Undefined
    /\ trace' = <<>>
    /\ UNCHANGED <<env, rules, providers, weights, thresholds>>

\* The positions at which evaluate is not running: before a call, suspended
\* at its one await (with the promises pending, or with Promise.all settled
\* and the continuation not yet run), and after it returned or rejected.
\* Everything between two of them runs without interruption.
YieldPoints == {"idle", "await", "score", "done", "raised"}

\* Step 1: const normalizedInput = this.normalizer.normalize(prompt)
StepNormalize ==
    /\ pc = "normalize"
    /\ normalizedInput' = normalize(prompt)
    /\ trace' = Append(trace, "normalize")
    /\ pc' = "rules"
    /\ UNCHANGED <<env, prompt, rules, providers, weights, thresholds, evidence,
                   calls, signals, score, action, decision>>

\* Step 2: const evidence = this.ruleEngine.evaluate(normalizedInput)
\* evaluate has no try/catch around it: when a rule raises, evaluate rejects.
\* The mutant goes on to the scoring without gathering the signals.
StepRulesMutant ==
    /\ pc = "rules"
    /\ evidence' = RuleEngineEvaluate(rules, normalizedInput)
    /\ trace' = Append(trace, "rules")
    /\ pc' = "score"
    /\ UNCHANGED <<env, prompt, rules, providers, weights, thresholds,
                   normalizedInput, calls, signals, score, action, decision>>
StepRules ==
    /\ pc = "rules"
    /\ IF RuleEngineEvaluateRaises(rules)
       THEN /\ pc' = "raised"
            /\ UNCHANGED <<evidence, trace>>
       ELSE /\ evidence' = RuleEngineEvaluate(rules, normalizedInput)
            /\ trace' = Append(trace, "rules")
            /\ pc' = "gather"
    /\ UNCHANGED <<env, prompt, rules, providers, weights, thresholds,
                   normalizedInput, calls, signals, score, action, decision>>

\* Step 3, up to the await: gatherIntelligenceSignals filters the enabled
\* providers, returns [] if there is none, and otherwise starts one analyze
\* call per enabled provider. A call that raises synchronously is caught at
\* inside the arrow function at once, so that promise is settled already.
StepGather ==
    /\ pc = "gather"
    /\ trace' = Append(trace, "gather")
    /\ IF Len(enabledProviders(providers)) = 0
       THEN /\ signals' = <<>>
            /\ pc' = "score"
            /\ UNCHANGED calls
       ELSE /\ calls' = [i \in 1..Len(providers) |->
                 IF ~providers[i].enabled THEN calls[i]
                 ELSE IF ProviderAnalyze(providers[i]).type = "throw"
                      THEN [state |-> "settled", count |-> calls[i].count + 1,
                            result |-> SafeAnalyze(providers[i])]
                      ELSE [state |-> "pending", count |-> calls[i].count + 1,
                            result |-> Undefined]]
            /\ pc' = "await"
            /\ UNCHANGED signals
    /\ UNCHANGED <<env, prompt, rules, providers, weights, thresholds,
                   normalizedInput, evidence, score, action, decision>>

\* The analyze promise of provider i resolves or rejects. The mutant calls
\* analyze a second time when the first call failed.
SettleMutant(i) ==
    /\ pc = "await"
    /\ calls[i].state = "pending"
    /\ calls' = [calls EXCEPT ![i] =
                   [state |-> "settled",
                    count |-> IF ProviderAnalyze(providers[i]).type = "resolve"
                              THEN @.count ELSE @.count + 1,
                    result |-> SafeAnalyze(providers[i])]]
    /\ UNCHANGED <<env, pc, prompt, rules, providers, weights, thresholds,
                   normalizedInput, evidence, signals, score, action, decision,
                   trace>>
Settle(i) ==
    /\ pc = "await"
    /\ calls[i].state = "pending"
    /\ calls' = [calls EXCEPT ![i] = [state |-> "settled", count |-> @.count,
                                      result |-> SafeAnalyze(providers[i])]]
    /\ UNCHANGED <<env, pc, prompt, rules, providers, weights, thresholds,
                   normalizedInput, evidence, signals, score, action, decision,
                   trace>>

Pending(c) == c.state = "pending"
Settled(c) == c.state = "settled"

Rejected(c) == c.state = "settled" /\ c.result.type = "reject"

\* The values of the settled calls in provider order. The mutant returns
\* them last provider first.
CallResultsMutant(cs) ==
    LET done == SelectSeq(cs, Settled)
    IN  [i \in 1..Len(done) |-> done[Len(done) + 1 - i].result.value]
CallResults(cs) ==
    LET done == SelectSeq(cs, Settled)
    IN  [i \in 1..Len(done) |-> done[i].result.value]

\* Promise.all(signalPromises) settles and evaluate resumes. It rejects as
\* soon as one promise has rejected, and then evaluate rejects too; it
\* resolves once every promise has resolved, with the values in the order of
\* enabledProviders. The mutant is a race: it resolves once one has resolved.
JoinMutant ==
    /\ pc = "await"
    /\ \E i \in 1..Len(calls) : Settled(calls[i])
    /\ signals' = CallResults(calls)
    /\ pc' = "score"
    /\ UNCHANGED <<env, prompt, rules, providers, weights, thresholds,
                   normalizedInput, evidence, calls, score, action, decision,
                   trace>>
Join ==
    /\ pc = "await"
    /\ IF \E i \in 1..Len(calls) : Rejected(calls[i])
       THEN /\ pc' = "raised"
            /\ UNCHANGED signals
       ELSE /\ \A i \in 1..Len(calls) : ~Pending(calls[i])
            /\ signals' = CallResults(calls)
            /\ pc' = "score"
    /\ UNCHANGED <<env, prompt, rules, providers, weights, thresholds,
                   normalizedInput, evidence, calls, score, action, decision,
                   trace>>

\* Step 5: this.scoringEngine.calculate(evidence, signals)
StepScore ==
    /\ pc = "score"
    /\ score' = calculate(evidence, signals, weights)
    /\ trace' = Append(trace, "score")
    /\ pc' = "policy"
    /\ UNCHANGED <<env, prompt, rules, providers, weights, thresholds,
                   normalizedInput, evidence, calls, signals, action, decision>>

\* Step 6: this.policy.evaluate(riskScore, confidence)
StepPolicy ==
    /\ pc = "policy"
    /\ action' = DefaultPolicyEvaluate(thresholds, score.riskScore, score.confidence)
    /\ trace' = Append(trace, "policy")
    /\ pc' = "explain"
    /\ UNCHANGED <<env, prompt, rules, providers, weights, thresholds,
                   normalizedInput, evidence, calls, signals, score, decision>>

\* Step 7 and the return. The timestamp (the wall clock) is left out.
StepExplain ==
    /\ pc = "explain"
    /\ decision' =
         [action      |-> action,
          riskScore   |-> score.riskScore,
          confidence  |-> score.confidence,
          explanation |-> generateExplanation(evidence, signals, score.riskScore,
                                              score.confidence, action),
          evidence    |-> evidence,
          signals     |-> IF Len(signals) > 0 THEN signals ELSE Undefined,
          version     |-> "0.2.0"]
    /\ trace' = Append(trace, "explain")
    /\ pc' = "done"
    /\ UNCHANGED <<env, prompt, rules, providers, weights, thresholds,
                   normalizedInput, evidence, calls, signals, score, action>>

-----------------------------------------------------------------------------
(* Bounds and input sets *)

MaxRules == 2       \* registered rules in a firewall
MaxProviders == 2   \* intelligence providers in a firewall
MaxEvidence == 2    \* evidence entries given to calculate
MaxSignals == 2     \* signals given to calculate
MaxRepeat == 6      \* repetitions of one evidence entry given to calculate
MaxMatched == 3     \* built-in rules that match one prompt
MaxInFlight == 2    \* evaluate calls in flight on one firewall
MaxEnvLen == 3      \* characters of a weight override
MaxPromptLen == 3   \* characters of a prompt given to normalize
MaxBreakLen == 2    \* characters between the two letters of a two-line prompt
MaxNestLen == 7     \* characters of a text given to the nesting rule

\* The prompts evaluate is called with: a Cyrillic letter before a CRLF, and
\* a replacement character next to a byte-order mark.
PromptSet == {<<"CYR", "CR", "LF", "a">>, <<"a", "FFFD", "BOM", "a">>}

ValidSignalValue == MakeSignal(Dec(90), Dec(90), "model")
InvalidSignalValue == MakeSignal(Dec(150), Dec(50), "model")

\* The providers a firewall is built with, before their ids are given.
ProviderTemplates ==
    {[enabled |-> TRUE, kind |-> "custom", behaviour |-> Throws],
     [enabled |-> TRUE, kind |-> "custom", behaviour |-> Rejects],
     [enabled |-> TRUE, kind |-> "custom", behaviour |-> Resolves(ValidSignalValue)],
     [enabled |-> TRUE, kind |-> "custom", behaviour |-> Resolves(InvalidSignalValue)],
     [enabled |-> TRUE, kind |-> "byom", behaviour |-> Resolves(InvalidSignalValue)],
     [enabled |-> FALSE, kind |-> "custom", behaviour |-> Resolves(ValidSignalValue)]}

ProviderIds == <<"p1", "p2", "p3", "p4">>

WithId(tpl, i) ==
    [id |-> ProviderIds[i], enabled |-> tpl.enabled, kind |-> tpl.kind,
     behaviour |-> tpl.behaviour]

ProviderLists ==
    {[i \in 1..Len(tpls) |-> WithId(tpls[i], i)] :
        tpls \in SeqsUpTo(ProviderTemplates, MaxProviders)}

NoOverrides == [warn |-> Undefined, block |-> Undefined, quarantine |-> Undefined]

-----------------------------------------------------------------------------
(* Spec: a firewall after construction, and evaluate calls on it *)

Init ==
    /\ env = NoEnv
    /\ pc = "idle"
    /\ prompt = <<>>
    /\ rules \in SeqsUpTo(RuleClasses, MaxRules)
    /\ providers \in ProviderLists
    /\ weights = DefaultWeights
    /\ thresholds = DefaultPolicyConstructor(NoOverrides)
    /\ normalizedInput = Undefined
    /\ evidence = <<>>
    /\ calls = [i \in 1..Len(providers) |-> NoCall]
    /\ signals = <<>>
    /\ score = Undefined
    /\ action = "none"
    /\ decision = Undefined
    /\ trace = <<>>

\* RuleEngine.addRule(rule), called by the owner of the engine the firewall
\* was built with while evaluate is not running: this.rules.push(rule).
AddRule(rule) ==
    /\ pc \in YieldPoints
    /\ Len(rules) < MaxRules
    /\ rules' = Append(rules, rule)
    /\ UNCHANGED <<env, pc, prompt, providers, weights, thresholds, normalizedInput,
                   evidence, calls, signals, score, action, decision, trace>>

\* The rule classes the owner adds after construction.
AddedRuleClasses == {"HomoglyphRule"}

Next ==
    \/ \E p \in PromptSet : CallEvaluate(p)
    \/ StepNormalize
    \/ StepRules
    \/ StepGather
    \/ \E i \in 1..Len(providers) : Settle(i)
    \/ Join
    \/ StepScore
    \/ StepPolicy
    \/ StepExplain
    \/ \E r \in AddedRuleClasses : AddRule(r)

Spec == Init /\ [][Next]_vars

-----------------------------------------------------------------------------
(* SpecConcurrent: several evaluate calls in flight on one firewall.  Each *)
(* of pc, prompt, normalizedInput, evidence, calls, signals, score, action *)
(* and decision holds one value per activation; trace[k] tells whether the *)
(* current call of activation k has been in flight together with another.  *)
(* The fields of the firewall (rules, providers, weights, thresholds) are  *)
(* shared by the activations; the rule list grows by addRule.  The steps   *)
(* are those of evaluate.  JavaScript runs one activation at a time up to  *)
(* its next await, so an activation is called or resumed, and a rule is    *)
(* added, only while every other activation is at a yield point.           *)

Activations == 1..MaxInFlight

\* The prompts of the concurrent calls: one that matches no rule and one
\* that matches the homoglyph rule.
ConcurrentPromptSet == {<<"a", " ", "TAB", "a">>, <<"CYR", "CR", "LF", "a">>}

ConcurrentRuleLists ==
    {[i \in 1..(MaxRules - 1) |-> "MixedEncodingRule"],
     [i \in 1..(MaxRules - 1) |-> "ThrowingRule"]}

\* The rules added while calls are in flight.
ConcurrentRuleClasses == {"HomoglyphRule"}

ConcurrentProviderLists ==
    {[i \in 1..Len(tpls) |-> WithId(tpls[i], i)] :
        tpls \in {<<>>,
                  <<[enabled |-> TRUE, kind |-> "custom", behaviour |-> Rejects],
                    [enabled |-> TRUE, kind |-> "custom",
                     behaviour |-> Resolves(ValidSignalValue)]>>,
                  <<[enabled |-> TRUE, kind |-> "byom",
                     behaviour |-> Resolves(ValidSignalValue)],
                    [enabled |-> TRUE, kind |-> "custom",
                     behaviour |-> Resolves(InvalidSignalValue)]>>}}

\* The locals of activation k.
Act(k) ==
    [pc |-> pc[k], prompt |-> prompt[k], normalizedInput |-> normalizedInput[k],
     evidence |-> evidence[k], calls |-> calls[k], signals |-> signals[k],
     score |-> score[k], action |-> action[k], decision |-> decision[k]]

\* A fresh activation of evaluate(p).
NewAct(p) ==
    [pc |-> "normalize", prompt |-> p, normalizedInput |-> Undefined,
     evidence |-> <<>>, calls |-> [i \in 1..Len(providers) |-> NoCall],
     signals |-> <<>>, score |-> Undefined, action |-> "none",
     decision |-> Undefined]

InFlight(c) == c \notin {"idle", "done", "raised"}

\* No activation other than k is between two yield points.
OthersYielded(k) == \A j \in Activations \ {k} : pc[j] \in YieldPoints

\* Activation k takes a step to the locals a; nothing else changes.
SetAct(k, a) ==
    /\ pc' = [pc EXCEPT ![k] = a.pc]
    /\ prompt' = [prompt EXCEPT ![k] = a.prompt]
    /\ normalizedInput' = [normalizedInput EXCEPT ![k] = a.normalizedInput]
    /\ evidence' = [evidence EXCEPT ![k] = a.evidence]
    /\ calls' = [calls EXCEPT ![k] = a.calls]
    /\ signals' = [signals EXCEPT ![k] = a.signals]
    /\ score' = [score EXCEPT ![k] = a.score]
    /\ action' = [action EXCEPT ![k] = a.action]
    /\ decision' = [decision EXCEPT ![k] = a.decision]
    /\ trace' = [j \in Activations |->
                    LET before == IF j = k /\ ~InFlight(pc[k]) THEN FALSE ELSE trace[j]
                    IN  \/ before
                        \/ /\ InFlight(pc'[j])
                           /\ \E m \in Activations \ {j} : InFlight(pc'[m])]
    /\ UNCHANGED <<env, rules, providers, weights, thresholds>>

InitConcurrent ==
    /\ env = NoEnv
    /\ rules \in ConcurrentRuleLists
    /\ providers \in ConcurrentProviderLists
    /\ weights = DefaultWeights
    /\ thresholds = DefaultPolicyConstructor(NoOverrides)
    /\ pc = [k \in Activations |-> "idle"]
    /\ prompt = [k \in Activations |-> <<>>]
    /\ normalizedInput = [k \in Activations |-> Undefined]
    /\ evidence = [k \in Activations |-> <<>>]
    /\ calls = [k \in Activations |-> [i \in 1..Len(providers) |-> NoCall]]
    /\ signals = [k \in Activations |-> <<>>]
    /\ score = [k \in Activations |-> Undefined]
    /\ action = [k \in Activations |-> "none"]
    /\ decision = [k \in Activations |-> Undefined]
    /\ trace = [k \in Activations |-> FALSE]

\* evaluate(p) is called while the other activations are wherever they are.
InFlightCall(k, p) ==
    /\ ~InFlight(pc[k])
    /\ OthersYielded(k)
    /\ SetAct(k, NewAct(p))

\* RuleEngine.addRule(rule) while every activation is at a yield point.
InFlightAddRule(rule) ==
    /\ \A k \in Activations : pc[k] \in YieldPoints
    /\ Len(rules) < MaxRules
    /\ rules' = Append(rules, rule)
    /\ UNCHANGED <<env, pc, prompt, providers, weights, thresholds, normalizedInput,
                   evidence, calls, signals, score, action, decision, trace>>

\* Step 1
InFlightNormalize(k) ==
    /\ pc[k] = "normalize"
    /\ SetAct(k, [Act(k) EXCEPT !.normalizedInput = normalize(prompt[k]),
                                !.pc = "rules"])

\* Step 2: when a rule raises, evaluate rejects.
InFlightRules(k) ==
    /\ pc[k] = "rules"
    /\ IF RuleEngineEvaluateRaises(rules)
       THEN SetAct(k, [Act(k) EXCEPT !.pc = "raised"])
       ELSE SetAct(k, [Act(k) EXCEPT
                !.evidence = RuleEngineEvaluate(rules, normalizedInput[k]),
                !.pc = "gather"])

\* Step 3, up to the await
InFlightGather(k) ==
    /\ pc[k] = "gather"
    /\ IF Len(enabledProviders(providers)) = 0
       THEN SetAct(k, [Act(k) EXCEPT !.signals = <<>>, !.pc = "score"])
       ELSE SetAct(k, [Act(k) EXCEPT
                !.calls = [i \in 1..Len(providers) |->
                    IF ~providers[i].enabled THEN calls[k][i]
                    ELSE IF ProviderAnalyze(providers[i]).type = "throw"
                         THEN [state |-> "settled", count |-> calls[k][i].count + 1,
                               result |-> SafeAnalyze(providers[i])]
                         ELSE [state |-> "pending", count |-> calls[k][i].count + 1,
                               result |-> Undefined]],
                !.pc = "await"])

\* The analyze promise of provider i of activation k settles.
InFlightSettle(k, i) ==
    /\ pc[k] = "await"
    /\ OthersYielded(k)
    /\ calls[k][i].state = "pending"
    /\ SetAct(k, [Act(k) EXCEPT
            !.calls[i] = [state |-> "settled", count |-> @.count,
                          result |-> SafeAnalyze(providers[i])]])

\* Promise.all of activation k settles. The mutant is a race.
InFlightJoinMutant(k) ==
    /\ pc[k] = "await"
    /\ OthersYielded(k)
    /\ \E i \in 1..Len(calls[k]) : Settled(calls[k][i])
    /\ SetAct(k, [Act(k) EXCEPT !.signals = CallResults(calls[k]), !.pc = "score"])
InFlightJoin(k) ==
    /\ pc[k] = "await"
    /\ OthersYielded(k)
    /\ IF \E i \in 1..Len(calls[k]) : Rejected(calls[k][i])
       THEN SetAct(k, [Act(k) EXCEPT !.pc = "raised"])
       ELSE /\ \A i \in 1..Len(calls[k]) : ~Pending(calls[k][i])
            /\ SetAct(k, [Act(k) EXCEPT !.signals = CallResults(calls[k]),
                                        !.pc = "score"])

\* Step 5
InFlightScore(k) ==
    /\ pc[k] = "score"
    /\ OthersYielded(k)
    /\ SetAct(k, [Act(k) EXCEPT !.score = calculate(evidence[k], signals[k], weights),
                                !.pc = "policy"])

\* Step 6
InFlightPolicy(k) ==
    /\ pc[k] = "policy"
    /\ SetAct(k, [Act(k) EXCEPT
            !.action = DefaultPolicyEvaluate(thresholds, score[k].riskScore,
                                             score[k].confidence),
            !.pc = "explain"])

\* Step 7 and the return
InFlightExplain(k) ==
    /\ pc[k] = "explain"
    /\ SetAct(k, [Act(k) EXCEPT
            !.decision =
                [action      |-> action[k],
                 riskScore   |-> score[k].riskScore,
                 confidence  |-> score[k].confidence,
                 explanation |-> generateExplanation(evidence[k], signals[k],
                                     score[k].riskScore, score[k].confidence, action[k]),
                 evidence    |-> evidence[k],
                 signals     |-> IF Len(signals[k]) > 0 THEN signals[k] ELSE Undefined,
                 version     |-> "0.2.0"],
            !.pc = "done"])

NextConcurrent ==
    \/ \E k \in Activations :
            \/ \E p \in ConcurrentPromptSet : InFlightCall(k, p)
            \/ InFlightNormalize(k)
            \/ InFlightRules(k)
            \/ InFlightGather(k)
            \/ \E i \in 1..Len(providers) : InFlightSettle(k, i)
            \/ InFlightJoin(k)
            \/ InFlightScore(k)
            \/ InFlightPolicy(k)
            \/ InFlightExplain(k)
    \/ \E r \in ConcurrentRuleClasses : InFlightAddRule(r)

SpecConcurrent == InitConcurrent /\ [][NextConcurrent]_vars

-----------------------------------------------------------------------------
(* SpecEngine: a ScoringEngine is constructed under drawn weight overrides *)

EnvChars == {"0", "1", "5", ".", "-", "x", " ", "U+3000"}

\* Every override of up to MaxEnvLen characters, and the absent one.
EnvValues == {Unset} \cup {EnvString(s) : s \in SeqsUpTo(EnvChars, MaxEnvLen)}

\* Overrides for the variables next to the one drawn from EnvValues.
FewEnvValues == {Unset, EnvString(<<"0", ".", "5">>), EnvString(<<"5">>)}

WeightNames ==
    {"maxSignalWeightWithRules", "signalWeightNoRules", "signalConfidenceWeight"}

InitEngine ==
    /\ \E n \in WeightNames, v \in EnvValues, few \in [WeightNames -> FewEnvValues] :
          env = [few EXCEPT ![n] = v]
    /\ pc = "engine.new"
    /\ weights = Undefined
    /\ thresholds = DefaultPolicyConstructor(NoOverrides)
    /\ score = Undefined
    /\ prompt = <<>>
    /\ rules = <<>>
    /\ providers = <<>>
    /\ normalizedInput = Undefined
    /\ evidence = <<>>
    /\ calls = <<>>
    /\ signals = <<>>
    /\ action = "none"
    /\ decision = Undefined
    /\ trace = <<>>

\* new ScoringEngine()
ConstructScoringEngine ==
    /\ pc = "engine.new"
    /\ IF ScoringEngineReturns(env)
       THEN /\ weights' = ScoringEngineWeights(env)
            /\ pc' = "engine.ready"
       ELSE /\ pc' = "engine.raised"
            /\ UNCHANGED weights
    /\ UNCHANGED <<env, prompt, rules, providers, thresholds, normalizedInput,
                   evidence, calls, signals, score, action, decision, trace>>

NextEngine == ConstructScoringEngine

SpecEngine == InitEngine /\ [][NextEngine]_vars

-----------------------------------------------------------------------------
(* SpecNormalize: normalize on every short string and on two letters with  *)
(* line breaks and spaces between them; the result is given to normalize   *)
(* again, or the input is reshaped in its white space.                     *)

NormalizeChars == {" ", "TAB", "LF", "CR", "e", "ACUTE", "BOM"}

\* The number of line breaks of s: a CR LF pair, a lone CR or a lone LF.
RECURSIVE LineBreakCount(_)
LineBreakCount(s) ==
    IF s = <<>> THEN 0
    ELSE IF Len(s) >= 2 /\ s[1] = "CR" /\ s[2] = "LF"
         THEN 1 + LineBreakCount(SubSeq(s, 3, Len(s)))
    ELSE IF s[1] \in {"CR", "LF"} THEN 1 + LineBreakCount(Tail(s))
    ELSE LineBreakCount(Tail(s))

IsBreak(c) == c \in {"CR", "LF"}

\* s with c put in after its first i characters, and s without character i
InsertAt(s, i, c) == SubSeq(s, 1, i) \o <<c>> \o SubSeq(s, i + 1, Len(s))
RemoveAt(s, i) == SubSeq(s, 1, i - 1) \o SubSeq(s, i + 1, Len(s))

\* The gap after the first i characters of s is at an end of the string, in
\* or next to a run of spaces and tabs, or next to a line break.
ShapeGap(s, i) ==
    \/ i = 0 \/ i = Len(s)
    \/ IsHoriz(s[i]) \/ IsHoriz(s[i + 1])
    \/ IsBreak(s[i]) \/ IsBreak(s[i + 1])

\* Character i of s is a space or tab at an end of the string, inside a
\* longer run, or next to a line break.
ShapeChar(s, i) ==
    /\ IsHoriz(s[i])
    /\ \/ i = 1 \/ i = Len(s)
       \/ IsHoriz(s[i - 1]) \/ IsHoriz(s[i + 1])
       \/ IsBreak(s[i - 1]) \/ IsBreak(s[i + 1])

\* Two letters with up to MaxBreakLen CRs and LFs between them.
LinePrompts ==
    {<<"e">> \o m \o <<"e">> : m \in SeqsUpTo({"CR", "LF"}, MaxBreakLen)}

\* r has as many line breaks as s.
KeepsBreaks(s, r) == LineBreakCount(r) = LineBreakCount(s)

\* The strings that differ from s by one step in white-space shape: one
\* space or tab more or less in a run, next to a line break or at an end, or
\* one line break written in another style.  A space or tab may go between
\* a CR and the LF after it, or come away from there.  Writing a line break
\* in another style leaves the line breaks as many as they were: a CR
\* written before a LF would be no line break of its own.
Reshapings(s) ==
    LET longer  == {InsertAt(s, i, c) : i \in {g \in 0..Len(s) : ShapeGap(s, g)},
                                        c \in {" ", "TAB"}}
        shorter == {RemoveAt(s, i) : i \in {k \in 1..Len(s) : ShapeChar(s, k)}}
        crlf    == {SubSeq(s, 1, i - 1) \o b \o SubSeq(s, i + 2, Len(s)) :
                       i \in {k \in 1..(Len(s) - 1) : s[k] = "CR" /\ s[k + 1] = "LF"},
                       b \in {<<"CR">>, <<"LF">>}}
        single  == {SubSeq(s, 1, i - 1) \o b \o SubSeq(s, i + 1, Len(s)) :
                       i \in {k \in 1..Len(s) : IsBreak(s[k])},
                       b \in {<<"CR">>, <<"LF">>, <<"CR", "LF">>}}
    IN  (longer \cup shorter \cup {r \in crlf \cup single : KeepsBreaks(s, r)}) \ {s}

InitNormalize ==
    /\ env = NoEnv
    /\ pc = "norm.input"
    /\ prompt \in SeqsUpTo(NormalizeChars, MaxPromptLen) \cup LinePrompts
    /\ normalizedInput = Undefined
    /\ rules = <<>>
    /\ providers = <<>>
    /\ weights = DefaultWeights
    /\ thresholds = DefaultPolicyConstructor(NoOverrides)
    /\ evidence = <<>>
    /\ calls = <<>>
    /\ signals = <<>>
    /\ score = Undefined
    /\ action = "none"
    /\ decision = Undefined
    /\ trace = <<>>

\* normalizer.normalize(prompt)
Normalize ==
    /\ pc = "norm.input"
    /\ normalizedInput' = normalize(prompt)
    /\ pc' = "norm.done"
    /\ UNCHANGED <<env, prompt, rules, providers, weights, thresholds, evidence,
                   calls, signals, score, action, decision, trace>>

\* normalizer.normalize(normalizedInput.normalized)
NormalizeAgain ==
    /\ pc = "norm.done"
    /\ normalizedInput' = normalize(normalizedInput.normalized)
    /\ pc' = "norm.again"
    /\ UNCHANGED <<env, prompt, rules, providers, weights, thresholds, evidence,
                   calls, signals, score, action, decision, trace>>

\* The longest prompt an input is reshaped into: one character more than
\* the bound of the short strings, or than the input when that is longer.
ReshapeLimit(original) ==
    IF Len(original) > MaxPromptLen THEN Len(original) + 1 ELSE MaxPromptLen + 1

\* The caller's next prompt is the last one in another white-space shape.
\* A step that puts a space or tab between a CR and the LF after it, or
\* takes one from there, is the last one (pc is "norm.rebroken" after it).
Reshape ==
    /\ pc \in {"norm.done", "norm.reshaped"}
    /\ \E r \in Reshapings(prompt) :
          /\ Len(r) <= ReshapeLimit(normalizedInput.original)
          /\ prompt' = r
          /\ pc' = IF KeepsBreaks(prompt, r) THEN "norm.reshaped" ELSE "norm.rebroken"
    /\ UNCHANGED <<env, rules, providers, weights, thresholds, normalizedInput,
                   evidence, calls, signals, score, action, decision, trace>>

NextNormalize == Normalize \/ NormalizeAgain \/ Reshape

SpecNormalize == InitNormalize /\ [][NextNormalize]_vars

-----------------------------------------------------------------------------
(* SpecSignal: evaluate calls on a firewall with one enabled provider that *)
(* resolves with a schema-valid signal, with and without registered rules  *)

\* Novelty scores and confidences of the provider's signal: the ends of
\* [0,1], the smallest number above 0 and values between.
SignalGrid == {Zero, MIN_VALUE, Dec(30), Dec(50), Dec(70), Dec(90), One}

\* One enabled provider, alone or registered after a disabled one.
SignalProviderLists ==
    {[i \in 1..Len(tpls) |-> WithId(tpls[i], i)] :
        tpls \in
          UNION {{<<[enabled |-> TRUE, kind |-> k,
                     behaviour |-> Resolves(MakeSignal(n, c, "model"))]>>,
                  <<[enabled |-> FALSE, kind |-> k,
                     behaviour |-> Resolves(ValidSignalValue)],
                    [enabled |-> TRUE, kind |-> k,
                     behaviour |-> Resolves(MakeSignal(n, c, "model"))]>>} :
                 n \in SignalGrid, c \in SignalGrid, k \in {"custom", "byom"}}}

InitSignal ==
    /\ env = NoEnv
    /\ pc = "idle"
    /\ prompt = <<>>
    /\ rules \in SeqsUpTo(RuleClasses, MaxRules)
    /\ providers \in SignalProviderLists
    /\ weights = DefaultWeights
    /\ thresholds = DefaultPolicyConstructor(NoOverrides)
    /\ normalizedInput = Undefined
    /\ evidence = <<>>
    /\ calls = [i \in 1..Len(providers) |-> NoCall]
    /\ signals = <<>>
    /\ score = Undefined
    /\ action = "none"
    /\ decision = Undefined
    /\ trace = <<>>

SpecSignal == InitSignal /\ [][Next]_vars

-----------------------------------------------------------------------------
(* SpecRuleFailure: evaluate calls on a firewall whose rule engine may hold *)
(* a rule that raises                                                       *)

RuleClassesWithFailure == RuleClasses \cup {"ThrowingRule"}

InitRuleFailure ==
    /\ env = NoEnv
    /\ pc = "idle"
    /\ prompt = <<>>
    /\ rules \in SeqsUpTo(RuleClassesWithFailure, MaxRules)
    /\ providers \in ProviderLists
    /\ Len(providers) <= 1
    /\ weights = DefaultWeights
    /\ thresholds = DefaultPolicyConstructor(NoOverrides)
    /\ normalizedInput = Undefined
    /\ evidence = <<>>
    /\ calls = [i \in 1..Len(providers) |-> NoCall]
    /\ signals = <<>>
    /\ score = Undefined
    /\ action = "none"
    /\ decision = Undefined
    /\ trace = <<>>

SpecRuleFailure == InitRuleFailure /\ [][Next]_vars

-----------------------------------------------------------------------------
(* SpecNesting: ExcessiveNestingRule.evaluate on the normalized form of    *)
(* every short text of brackets and letters                                *)

NestChars == {"(", "[", "}", "a"}

InitNesting ==
    /\ env = NoEnv
    /\ pc = "nest.input"
    /\ prompt \in SeqsUpTo(NestChars, MaxNestLen)
    /\ normalizedInput = Undefined
    /\ rules = <<"ExcessiveNestingRule">>
    /\ providers = <<>>
    /\ weights = DefaultWeights
    /\ thresholds = DefaultPolicyConstructor(NoOverrides)
    /\ evidence = <<>>
    /\ calls = <<>>
    /\ signals = <<>>
    /\ score = Undefined
    /\ action = "none"
    /\ decision = Undefined
    /\ trace = <<>>

\* rule.evaluate(normalizer.normalize(prompt))
EvaluateNesting ==
    /\ pc = "nest.input"
    /\ normalizedInput' = normalize(prompt)
    /\ evidence' = RuleEngineEvaluate(rules, normalize(prompt))
    /\ pc' = "nest.done"
    /\ UNCHANGED <<env, prompt, rules, providers, weights, thresholds, calls,
                   signals, score, action, decision, trace>>

NextNesting == EvaluateNesting

SpecNesting == InitNesting /\ [][NextNesting]_vars

-----------------------------------------------------------------------------
(* SpecScoring: ScoringEngine.calculate on drawn evidence and signals *)

EffectSet ==
    {[score |-> Dec(-50), class |-> "c", severity |-> "medium"],
     InstructionOverrideEffect,
     SystemAccessEffect}

\* Evidence entries: unmatched, matched with an effect, and matched without
\* one (the schema leaves effect optional).
EvidenceSet ==
    {[ruleId |-> "r", matched |-> FALSE, effect |-> Undefined, explanation |-> Undefined]}
    \cup {[ruleId |-> "r", matched |-> TRUE, effect |-> e,
            explanation |-> <<"Rule r matched: d">>] : e \in EffectSet}
    \cup {[ruleId |-> "r", matched |-> TRUE, effect |-> Undefined, explanation |-> Undefined]}

\* Signals: one of confidence 0, one inside the range the schema allows, and
\* one outside it in both fields.  Together the last two have a total
\* confidence above 0 and a weighted novelty below 0.
SignalSet ==
    {MakeSignal(Zero, Zero, "m"), MakeSignal(Dec(70), Dec(30), "m"),
     MakeSignal(Dec(150), Dec(-20), "m")}

\* Evidence lists: every list of up to MaxEvidence entries, and the lists
\* that repeat one entry up to MaxRepeat times (enough matches for the caps
\* of the confidence formula to act).
EvidenceLists ==
    SeqsUpTo(EvidenceSet, MaxEvidence)
    \cup {[i \in 1..k |-> e] : e \in EvidenceSet, k \in 1..MaxRepeat}

WeightsSet ==
    {DefaultWeights,
     [maxSignalWeightWithRules |-> One, signalWeightNoRules |-> Dec(50),
      signalConfidenceWeight |-> One]}

InitScoring ==
    /\ env = NoEnv
    /\ pc = "scoring.input"
    /\ evidence \in EvidenceLists
    /\ signals \in SeqsUpTo(SignalSet, MaxSignals)
    /\ weights \in WeightsSet
    /\ score = Undefined
    /\ prompt = <<>>
    /\ rules = <<>>
    /\ providers = <<>>
    /\ thresholds = DefaultPolicyConstructor(NoOverrides)
    /\ normalizedInput = Undefined
    /\ calls = <<>>
    /\ action = "none"
    /\ decision = Undefined
    /\ trace = <<>>

\* scoringEngine.calculate(evidence, signals)
Calculate ==
    /\ pc = "scoring.input"
    /\ score' = calculate(evidence, signals, weights)
    /\ pc' = "scoring.done"
    /\ UNCHANGED <<env, prompt, rules, providers, weights, thresholds,
                   normalizedInput, evidence, calls, signals, action, decision,
                   trace>>

NextScoring == Calculate

SpecScoring == InitScoring /\ [][NextScoring]_vars

-----------------------------------------------------------------------------
(* SpecMonotone: calculate with the default weights on every short list of  *)
(* evidence and of signals                                                  *)

InitMonotone ==
    /\ env = NoEnv
    /\ pc = "scoring.input"
    /\ evidence \in SeqsUpTo(EvidenceSet, MaxEvidence)
    /\ signals \in SeqsUpTo(SignalSet, MaxSignals)
    /\ weights = DefaultWeights
    /\ score = Undefined
    /\ prompt = <<>>
    /\ rules = <<>>
    /\ providers = <<>>
    /\ thresholds = DefaultPolicyConstructor(NoOverrides)
    /\ normalizedInput = Undefined
    /\ calls = <<>>
    /\ action = "none"
    /\ decision = Undefined
    /\ trace = <<>>

SpecMonotone == InitMonotone /\ [][NextScoring]_vars

-----------------------------------------------------------------------------
(* SpecExtreme: calculate on scores and signals at the ends of the range of *)
(* the number type                                                          *)

\* 2^1023
TwoTo1023 == Finite(1, <<0, 0, 0, 1024>>, MaxExp)

\* Matched entries with scores whose sum overflows, with scores that cancel,
\* and with the score of a built-in rule.
ExtremeEvidenceSet ==
    {[ruleId |-> "r", matched |-> TRUE,
      effect |-> [score |-> x, class |-> "c", severity |-> "medium"],
      explanation |-> <<"Rule r matched: d">>] :
        x \in {TwoTo1023, F64Neg(TwoTo1023), Dec(30)}}

\* Signals whose confidences add up to Infinity, whose product of novelty
\* and confidence is below the smallest number, and ordinary ones.
ExtremeSignalSet ==
    {MakeSignal(One, parseFloat(<<"1", "e", "3", "0", "8">>), "m"),
     MakeSignal(parseFloat(<<"1", "e", "-", "2", "0", "0">>),
                parseFloat(<<"1", "e", "-", "2", "0", "0">>), "m"),
     MakeSignal(Dec(50), MIN_VALUE, "m"),
     MakeSignal(Dec(70), Dec(30), "m")}

InitExtreme ==
    /\ env = NoEnv
    /\ pc = "scoring.input"
    /\ evidence \in SeqsUpTo(ExtremeEvidenceSet, MaxEvidence)
    /\ signals \in SeqsUpTo(ExtremeSignalSet, MaxSignals)
    /\ weights = DefaultWeights
    /\ score = Undefined
    /\ prompt = <<>>
    /\ rules = <<>>
    /\ providers = <<>>
    /\ thresholds = DefaultPolicyConstructor(NoOverrides)
    /\ normalizedInput = Undefined
    /\ calls = <<>>
    /\ action = "none"
    /\ decision = Undefined
    /\ trace = <<>>

SpecExtreme == InitExtreme /\ [][NextScoring]_vars

-----------------------------------------------------------------------------
(* SpecAdvisory: calculate and the policy on evidence of registered rules  *)
(* with schema-valid signals, valid weights and ascending thresholds       *)

\* Schema-valid signals: full novelty and confidence, values between, and a
\* confidence so small that novelty times confidence underflows to 0.
AdvisorySignalSet ==
    {MakeSignal(One, One, "m"), MakeSignal(Dec(70), Dec(10), "m"),
     MakeSignal(Dec(30), MIN_VALUE, "m")}

\* Evidence entries of registered rules: unmatched, or matched with an effect.
AdvisoryEvidenceSet == {e \in EvidenceSet : e.matched => e.effect # Undefined}

AdvisoryThresholds ==
    {DefaultPolicyConstructor(NoOverrides),
     [warn |-> Dec(10), block |-> Dec(50), quarantine |-> One],
     [warn |-> Zero, block |-> Dec(30), quarantine |-> Dec(70)]}

InitAdvisory ==
    /\ env = NoEnv
    /\ pc = "scoring.input"
    /\ evidence \in SeqsUpTo(AdvisoryEvidenceSet, MaxEvidence) \ {<<>>}
    /\ signals \in SeqsUpTo(AdvisorySignalSet, MaxSignals)
    /\ weights \in WeightsSet
    /\ thresholds \in AdvisoryThresholds
    /\ score = Undefined
    /\ prompt = <<>>
    /\ rules = <<>>
    /\ providers = <<>>
    /\ normalizedInput = Undefined
    /\ calls = <<>>
    /\ action = "none"
    /\ decision = Undefined
    /\ trace = <<>>

\* policy.evaluate(riskScore, confidence) on the score calculate returned
PolicyOnScore ==
    /\ pc = "scoring.done"
    /\ action' = DefaultPolicyEvaluate(thresholds, score.riskScore, score.confidence)
    /\ pc' = "scoring.decided"
    /\ UNCHANGED <<env, prompt, rules, providers, weights, thresholds,
                   normalizedInput, evidence, calls, signals, score, decision,
                   trace>>

NextAdvisory == Calculate \/ PolicyOnScore

SpecAdvisory == InitAdvisory /\ [][NextAdvisory]_vars

-----------------------------------------------------------------------------
(* SpecBuiltin: the scoring and policy stages on the evidence of built-in  *)
(* rules that matched, in every registration order, without signals and    *)
(* with the default thresholds                                             *)

\* The sequences of up to n distinct elements of S.
InjectiveSeqs(S, n) ==
    {s \in SeqsUpTo(S, n) : \A i, j \in 1..Len(s) : i # j => s[i] # s[j]}

InitBuiltin ==
    /\ env = NoEnv
    /\ pc = "scoring.input"
    /\ \E ids \in InjectiveSeqs(BuiltinRuleIds, MaxMatched) :
          evidence = [i \in 1..Len(ids) |-> BuiltinMatch(ids[i])]
    /\ signals = <<>>
    /\ weights = DefaultWeights
    /\ thresholds = DefaultPolicyConstructor(NoOverrides)
    /\ score = Undefined
    /\ prompt = <<>>
    /\ rules = <<>>
    /\ providers = <<>>
    /\ normalizedInput = Undefined
    /\ calls = <<>>
    /\ action = "none"
    /\ decision = Undefined
    /\ trace = <<>>

SpecBuiltin == InitBuiltin /\ [][NextAdvisory]_vars

-----------------------------------------------------------------------------
(* SpecPolicy: a DefaultPolicy is constructed and evaluated *)

\* Threshold overrides given to the constructor: absent, or a number,
\* inside or outside [0,1].
ThresholdValues == {Undefined, Dec(-10), Dec(10), Dec(30), Dec(50), Dec(70), Dec(90), Dec(150)}

OverridesSet == [warn : ThresholdValues, block : ThresholdValues, quarantine : ThresholdValues]

\* Risk scores and confidences given to evaluate.
RiskValues == {Zero, Dec(10), Dec(20), Dec(30), Dec(31), Dec(50), Dec(69), Dec(70),
               Dec(89), Dec(90), One}
ConfidenceValues == {Zero, Dec(30), Dec(49), Dec(50), One}

InitPolicy ==
    /\ env = NoEnv
    /\ pc = "policy.new"
    /\ thresholds = Undefined
    /\ score = Undefined
    /\ action = "none"
    /\ prompt = <<>>
    /\ rules = <<>>
    /\ providers = <<>>
    /\ weights = DefaultWeights
    /\ normalizedInput = Undefined
    /\ evidence = <<>>
    /\ calls = <<>>
    /\ signals = <<>>
    /\ decision = Undefined
    /\ trace = <<>>

\* new DefaultPolicy(o)
ConstructPolicy(o) ==
    /\ pc = "policy.new"
    /\ thresholds' = DefaultPolicyConstructor(o)
    /\ pc' = "policy.ready"
    /\ UNCHANGED <<env, prompt, rules, providers, weights, normalizedInput, evidence,
                   calls, signals, score, action, decision, trace>>

\* policy.evaluate(r, c)
PolicyEvaluate(r, c) ==
    /\ pc \in {"policy.ready", "policy.evaluated"}
    /\ score' = [riskScore |-> r, confidence |-> c]
    /\ action' = DefaultPolicyEvaluate(thresholds, r, c)
    /\ pc' = "policy.evaluated"
    /\ UNCHANGED <<env, prompt, rules, providers, weights, thresholds,
                   normalizedInput, evidence, calls, signals, decision, trace>>

NextPolicy ==
    \/ \E o \in OverridesSet : ConstructPolicy(o)
    \/ \E r \in RiskValues, c \in ConfidenceValues : PolicyEvaluate(r, c)

SpecPolicy == InitPolicy /\ [][NextPolicy]_vars

-----------------------------------------------------------------------------
(* Properties *)

EnabledIndices == {i \in 1..Len(providers) : providers[i].enabled}

\* Provider i is enabled and its analyze always fails (raises or rejects).
AlwaysFails(i) ==
    /\ providers[i].enabled
    /\ ProviderAnalyze(providers[i]).type \in {"throw", "reject"}

\* The providers with provider i disabled.
Disabled(ps, i) == [ps EXCEPT ![i].enabled = FALSE]

\* The score evaluate computes from the evidence of the call with the
\* providers ps.
ScoreWith(ps) == calculate(evidence, gatherIntelligenceSignals(ps), weights)

\* C1 (fail-open equivalence): the Decision of a firewall with an enabled
\* provider whose analyze always fails has the riskScore and the confidence
\* that the same firewall computes with that provider disabled.
C1_FailOpenEquivalence ==
    pc = "done" =>
        \A i \in 1..Len(providers) :
            AlwaysFails(i) =>
                /\ SameNumber(decision.riskScore,
                              ScoreWith(Disabled(providers, i)).riskScore)
                /\ SameNumber(decision.confidence,
                              ScoreWith(Disabled(providers, i)).confidence)

\* C2 (boundedness): calculate returns riskScore and confidence in [0,1] for
\* every evidence list and every signal list, and so does every Decision.
C2_Bounded ==
    /\ pc = "scoring.done" => InUnit(score.riskScore) /\ InUnit(score.confidence)
    /\ pc = "done" => InUnit(decision.riskScore) /\ InUnit(decision.confidence)

\* The sum of the scores of the matched evidence entries.
RawRuleSum ==
    F64Sum([i \in 1..Len(evidence) |->
                IF evidence[i].matched /\ evidence[i].effect # Undefined
                THEN evidence[i].effect.score ELSE Zero])

\* calculate has run on evidence whose matched scores add up to less than 0
\* together with a signal outside the range of the schema.
C2_Witness ==
    /\ pc = "scoring.done"
    /\ F64Lt(RawRuleSum, Zero)
    /\ \E j \in 1..Len(signals) : ~SignalSchemaValid(signals[j])

\* C3 (failure isolation): evaluate never raises; in its Decision the signal
\* of an enabled provider whose analyze raised or rejected is the neutral
\* signal with that provider's id, and the signal of every other enabled
\* provider is the value its analyze resolved to.
C3_FailureIsolation ==
    /\ pc # "raised"
    /\ pc = "done" /\ EnabledIndices # {} =>
          LET en == enabledProviders(providers)
          IN  /\ Len(decision.signals) = Len(en)
              /\ \A k \in 1..Len(en) :
                    decision.signals[k] =
                        IF ProviderAnalyze(en[k]).type = "resolve"
                        THEN ProviderAnalyze(en[k]).value
                        ELSE [noveltyScore |-> Zero, predictedClasses |-> <<>>,
                              confidence |-> Zero, modelId |-> en[k].id]

\* A Decision was returned by a firewall with one provider that raises, one
\* that resolves, or one that rejects and one that resolves.
C3_Witness ==
    /\ pc = "done"
    /\ \E i, j \in EnabledIndices :
          /\ AlwaysFails(i)
          /\ providers[j].kind = "custom"
          /\ providers[j].behaviour.type = "resolve"

\* C4 (invalid-result substitution): every signal passed to calculate and
\* every signal of the Decision is schema-valid, because a resolved value
\* that is not is replaced by the neutral signal.
C4_SignalsValid ==
    /\ pc \in {"score", "policy", "explain", "done"} =>
          \A k \in 1..Len(signals) : SignalSchemaValid(signals[k])
    /\ pc = "done" /\ decision.signals # Undefined =>
          \A k \in 1..Len(decision.signals) : SignalSchemaValid(decision.signals[k])

\* The index of the k-th enabled provider.
KthEnabled(k) ==
    CHOOSE i \in EnabledIndices : Cardinality({j \in EnabledIndices : j <= i}) = k

\* C5 (join, never race): once evaluate has resumed after the gathering, the
\* analyze call of every enabled provider has settled and the signal list
\* has exactly one entry per enabled provider.
C5_Join ==
    pc \in {"score", "policy", "explain", "done"} =>
        /\ \A i \in EnabledIndices : calls[i].state = "settled"
        /\ \A i \in 1..Len(providers) : ~providers[i].enabled => calls[i].state = "idle"
        /\ Len(signals) = Cardinality(EnabledIndices)
        /\ \A k \in 1..Len(signals) : signals[k] = calls[KthEnabled(k)].result.value

\* A Decision was returned by a firewall with two enabled providers whose
\* analyze promises both were pending.
C5_Witness ==
    /\ pc = "done"
    /\ Cardinality({i \in EnabledIndices :
                      ProviderAnalyze(providers[i]).type # "throw"}) >= 2

Stages == <<"normalize", "rules", "gather", "score", "policy", "explain">>

\* The rules that were registered when the evidence was computed: addRule
\* appends, so they are the first Len(evidence) of the registered ones.
RulesSeen(ev) == SubSeq(rules, 1, Len(ev))

\* C6 (fixed pipeline order): the stages of a call run once each in the
\* order normalize, rules, gather, score, policy, explain; no analyze call
\* is made before the rules are evaluated; scoring starts after every call
\* has settled; the policy is evaluated on the score of the same call.
C6_PipelineOrder ==
    /\ Len(trace) <= Len(Stages) /\ trace = SubSeq(Stages, 1, Len(trace))
    /\ pc = "done" => trace = Stages
    /\ pc = "gather" => evidence = RuleEngineEvaluate(rules, normalize(prompt))
    /\ (\E i \in 1..Len(calls) : calls[i].count > 0) =>
          /\ Len(trace) >= 3
          /\ Len(evidence) <= Len(rules)
          /\ evidence = RuleEngineEvaluate(RulesSeen(evidence), normalize(prompt))
    /\ Len(trace) >= 4 => \A i \in 1..Len(calls) : calls[i].state # "pending"
    /\ pc = "policy" => score = calculate(evidence, signals, weights)
    /\ Len(trace) >= 5 =>
          action = DefaultPolicyEvaluate(thresholds, score.riskScore, score.confidence)
    /\ pc = "done" => decision.action = action /\ decision.riskScore = score.riskScore

\* A call with rules and an enabled provider has returned its Decision.
C6_Witness ==
    /\ pc = "done"
    /\ Len(evidence) > 0
    /\ \E i \in EnabledIndices : calls[i].count = 1

\* warn < block < quarantine, each in [0,1]
ValidThresholds(th) ==
    /\ InUnit(th.warn) /\ InUnit(th.block) /\ InUnit(th.quarantine)
    /\ F64Lt(th.warn, th.block) /\ F64Lt(th.block, th.quarantine)

\* C7 (policy mapping): with thresholds warn < block < quarantine in [0,1]
\* evaluate returns the first matching case of: warn if confidence < 0.5 and
\* riskScore > warn; quarantine if riskScore >= quarantine; block if
\* riskScore >= block; warn if riskScore >= warn; otherwise allow.
C7_PolicyMapping ==
    pc = "policy.evaluated" /\ ValidThresholds(thresholds) =>
        LET r == score.riskScore
            c == score.confidence
        IN  CASE F64Lt(c, Dec(50)) /\ F64Lt(thresholds.warn, r) -> action = "warn"
              [] OTHER ->
                 CASE F64Le(thresholds.quarantine, r) -> action = "quarantine"
                   [] OTHER ->
                      CASE F64Le(thresholds.block, r) -> action = "block"
                        [] OTHER ->
                           CASE F64Le(thresholds.warn, r) -> action = "warn"
                             [] OTHER -> action = "allow"

\* A policy with ascending thresholds other than the defaults was evaluated
\* at its warn threshold with low confidence.
C7_Witness ==
    /\ pc = "policy.evaluated"
    /\ ValidThresholds(thresholds)
    /\ thresholds # DefaultPolicyConstructor(NoOverrides)
    /\ F64Eq(score.riskScore, thresholds.warn)
    /\ F64Lt(score.confidence, Dec(50))

\* C8 (threshold validation): the thresholds of every constructed policy
\* satisfy 0 <= warn < block < quarantine <= 1, since the constructor raises
\* for any other.
C8_ThresholdsValidated ==
    pc \in {"policy.ready", "policy.evaluated"} =>
        ValidThresholds(getThresholds(thresholds))

\* C9 (confidence gate): evaluate never returns block or quarantine when
\* confidence < 0.5.
C9_ConfidenceGate ==
    pc = "policy.evaluated" /\ F64Lt(score.confidence, Dec(50)) =>
        action \notin {"block", "quarantine"}

\* clamp(x, 0, 1)
Clamp01(x) == IF F64Lt(x, Zero) THEN Zero ELSE IF F64Lt(One, x) THEN One ELSE x

\* The confidence-weighted mean of noveltyScore, 0 without signals or with
\* total confidence 0, times the weight for the case.
StatedSignalAdjustment ==
    LET total == F64Sum([i \in 1..Len(signals) |-> signals[i].confidence])
        weighted == F64Sum([i \in 1..Len(signals) |->
                        F64Mul(signals[i].noveltyScore, signals[i].confidence)])
        w == IF Len(evidence) > 0 THEN weights.maxSignalWeightWithRules
             ELSE weights.signalWeightNoRules
    IN  IF Len(signals) = 0 \/ IsZero(total) THEN Zero
        ELSE F64Mul(F64Div(weighted, total), w)

\* The riskScore for a given ruleScore.
StatedRiskScore(ruleScore) ==
    IF Len(evidence) > 0 THEN Clamp01(F64Add(ruleScore, StatedSignalAdjustment))
    ELSE Clamp01(StatedSignalAdjustment)

\* C10 as stated (risk score formula): riskScore is computed from
\* ruleScore = clamp(sum of the matched scores, 0, 1).
C10_RiskFormulaOriginal ==
    pc = "scoring.done" =>
        SameNumber(score.riskScore, StatedRiskScore(Clamp01(RawRuleSum)))

\* C10 amended: riskScore is computed from ruleScore = min(sum of the
\* matched scores, 1), which has no lower bound; the rest is as stated.
C10_RiskFormula ==
    pc = "scoring.done" =>
        SameNumber(score.riskScore, StatedRiskScore(F64Min(RawRuleSum, One)))

\* calculate has run on evidence whose matched scores add up to less than 0
\* and on signals with a positive adjustment.
C10_Witness ==
    /\ pc = "scoring.done"
    /\ F64Lt(RawRuleSum, Zero)
    /\ F64Lt(Zero, StatedSignalAdjustment)
    /\ Len(signals) = 2


\* The arithmetic mean of the signals' confidence values, 0 without signals.
MeanSignalConfidence ==
    IF Len(signals) = 0 THEN Zero
    ELSE F64Div(F64Sum([i \in 1..Len(signals) |-> signals[i].confidence]),
              F64Int(Len(signals)))

MatchedEntries == {i \in 1..Len(evidence) : evidence[i].matched}

HighOrCriticalEntries ==
    {i \in MatchedEntries :
        /\ evidence[i].effect # Undefined
        /\ evidence[i].effect.severity \in {"high", "critical"}}

\* The confidence of the three cases.
StatedConfidence ==
    LET signalTerm == F64Mul(MeanSignalConfidence, weights.signalConfidenceWeight)
    IN  IF Len(evidence) = 0
        THEN IF Len(signals) = 0 THEN Dec(30) ELSE Clamp01(MeanSignalConfidence)
        ELSE IF MatchedEntries = {}
        THEN Clamp01(F64Add(Dec(30), signalTerm))
        ELSE Clamp01(F64Add(F64Add(F64Min(One, F64Times(Cardinality(MatchedEntries), Dec(20))),
                                F64Min(Dec(30), F64Times(Cardinality(HighOrCriticalEntries), Dec(10)))),
                          signalTerm))

\* C11 (confidence formula): the confidence calculate returns is 0.3 or
\* clamp(mean signal confidence) with empty evidence, clamp(0.3 + mean x
\* signalConfidenceWeight) with evidence and no match, and clamp(min(1, 0.2 x
\* matched) + min(0.3, 0.1 x high-or-critical matched) + mean x
\* signalConfidenceWeight) with at least one match.
C11_ConfidenceFormula ==
    pc = "scoring.done" => SameNumber(score.confidence, StatedConfidence)

\* calculate has run on four or more high-severity matches and a signal of
\* negative confidence, where both inner caps decide the result.
C11_Witness ==
    /\ pc = "scoring.done"
    /\ Cardinality(HighOrCriticalEntries) >= 4
    /\ F64Lt(MeanSignalConfidence, Zero)
    /\ F64Lt(Zero, score.confidence) /\ F64Lt(score.confidence, One)

AllSignalsValid == \A j \in 1..Len(signals) : SignalSchemaValid(signals[j])

\* C12 (bounded signal influence): with non-empty evidence and signals whose
\* noveltyScore and confidence are in [0,1], the riskScore exceeds the
\* riskScore of the same evidence without signals by at least 0 and at most
\* signalWeightWithRules.
C12_BoundedSignalInfluence ==
    pc = "scoring.done" /\ Len(evidence) > 0 /\ AllSignalsValid =>
        LET without == calculate(evidence, <<>>, weights).riskScore
        IN  /\ F64Le(without, score.riskScore)
            /\ F64Le(score.riskScore, F64Add(without, weights.maxSignalWeightWithRules))

\* calculate has run with the default weights on evidence and valid signals
\* that raise the riskScore by exactly signalWeightWithRules = 0.2.
C12_Witness ==
    /\ pc = "scoring.done"
    /\ Len(evidence) > 0 /\ Len(signals) > 0 /\ AllSignalsValid
    /\ weights = DefaultWeights
    /\ F64Eq(score.riskScore,
             F64Add(calculate(evidence, <<>>, weights).riskScore, Dec(20)))

\* C13 (signals cannot force a block): with the default weights and the
\* default thresholds, evidence that is non-empty and has no match, and
\* signals in [0,1], the action is allow.
C13_SignalsCannotBlock ==
    /\ pc = "scoring.done"
    /\ weights = DefaultWeights
    /\ Len(evidence) > 0 /\ MatchedEntries = {}
    /\ AllSignalsValid
    => DefaultPolicyEvaluate(DefaultPolicyConstructor(NoOverrides),
                             score.riskScore, score.confidence) = "allow"

\* calculate has run with the default weights on unmatched evidence and on two
\* signals of full novelty and confidence.
C13_Witness ==
    /\ pc = "scoring.done"
    /\ weights = DefaultWeights
    /\ Len(evidence) > 0 /\ MatchedEntries = {}
    /\ Len(signals) = 2
    /\ \A j \in 1..Len(signals) :
          F64Eq(signals[j].noveltyScore, One) /\ F64Eq(signals[j].confidence, One)

\* Scores an effect.score can be raised to.
RaisedScores == {Dec(40), Dec(50), Dec(150)}

\* The evidence with the effect.score of entry i set to s.
WithScore(ev, i, s) == [ev EXCEPT ![i].effect.score = s]

\* C14 (monotonicity): raising the effect.score of one matched entry, with
\* the rest of the evidence and the signals fixed, never lowers the riskScore.
C14_Monotonicity ==
    pc = "scoring.done" =>
        \A i \in 1..Len(evidence) :
            evidence[i].matched /\ evidence[i].effect # Undefined =>
                \A s \in RaisedScores :
                    F64Lt(evidence[i].effect.score, s) =>
                        ~F64Lt(calculate(WithScore(evidence, i, s), signals,
                                         weights).riskScore,
                               score.riskScore)

\* calculate has run on evidence with a matched score that can be raised above
\* 1 and a riskScore below 1.
C14_Witness ==
    /\ pc = "scoring.done"
    /\ Len(evidence) = 2
    /\ \E i \in 1..Len(evidence) :
          /\ evidence[i].matched /\ evidence[i].effect # Undefined
          /\ F64Eq(evidence[i].effect.score, Dec(40))
    /\ F64Lt(Zero, score.riskScore) /\ F64Lt(score.riskScore, One)


\* The evidence in the order p of its entries.
Permuted(ev, p) == [i \in 1..Len(ev) |-> ev[p[i]]]

\* C15 (order independence of scoring): every permutation of the evidence
\* yields the riskScore and the confidence of the evidence as given, and the
\* same action.
C15_OrderIndependence ==
    pc = "scoring.decided" =>
        \A p \in Permutations(1..Len(evidence)) :
            LET other == calculate(Permuted(evidence, p), signals, weights)
            IN  /\ SameNumber(other.riskScore, score.riskScore)
                /\ SameNumber(other.confidence, score.confidence)
                /\ DefaultPolicyEvaluate(thresholds, other.riskScore,
                                         other.confidence) = action


\* The action of the default policy for the score calculate returned.
DefaultAction ==
    DefaultPolicyEvaluate(DefaultPolicyConstructor(NoOverrides),
                          score.riskScore, score.confidence)

\* C20 (single-match gating): with the default weights and thresholds and no
\* signals, evidence with exactly one matched entry has confidence 0.2, or
\* 0.2 + 0.1 if the entry's severity is high or critical, which is 0.3 up to
\* the rounding of the sum; when the entry is the match of
\* instruction-override (0.4, high) or of system-access (0.5, critical), the
\* riskScore is the rule's score, the confidence 0.3 up to rounding and the
\* action warn.
C20_SingleMatchGating ==
    /\ pc = "scoring.done"
    /\ weights = DefaultWeights
    /\ signals = <<>>
    /\ Cardinality(MatchedEntries) = 1
    => LET i == CHOOSE k \in MatchedEntries : TRUE
       IN  /\ F64Eq(score.confidence,
                    IF i \in HighOrCriticalEntries THEN F64Add(Dec(20), Dec(10))
                    ELSE Dec(20))
           /\ Near(score.confidence, IF i \in HighOrCriticalEntries THEN Dec(30) ELSE Dec(20))
           /\ evidence[i].effect \in {InstructionOverrideEffect, SystemAccessEffect} =>
                 /\ F64Eq(score.riskScore, evidence[i].effect.score)
                 /\ Near(score.confidence, Dec(30))
                 /\ DefaultAction = "warn"

\* calculate has run without signals on the lone match of system-access next
\* to a rule that did not match.
C20_Witness ==
    /\ pc = "scoring.done"
    /\ weights = DefaultWeights
    /\ signals = <<>>
    /\ Len(evidence) = 2
    /\ Cardinality(MatchedEntries) = 1
    /\ \E i \in MatchedEntries : evidence[i].effect = SystemAccessEffect


\* Two returned calls ran under the same rule set: addRule appends and an
\* evidence list has one entry per rule, so they did when their evidence
\* lists are equally long.
SameRuleSet(i, j) == Len(decision[i].evidence) = Len(decision[j].evidence)

\* C16 (determinism): any two evaluate calls on the same prompt under the
\* same rule set that have returned, whether one ran after the other or both
\* were in flight together, returned the same riskScore, confidence, action
\* and evidence.
C16_Determinism ==
    \A i, j \in Activations :
        /\ pc[i] = "done" /\ pc[j] = "done"
        /\ prompt[i] = prompt[j]
        /\ SameRuleSet(i, j)
        => /\ SameNumber(decision[i].riskScore, decision[j].riskScore)
           /\ SameNumber(decision[i].confidence, decision[j].confidence)
           /\ decision[i].action = decision[j].action
           /\ decision[i].evidence = decision[j].evidence

\* Two calls on one prompt that matches a rule have returned after being in
\* flight together, on a firewall with two enabled providers.
C16_Witness ==
    \E i, j \in Activations :
        /\ i # j
        /\ pc[i] = "done" /\ pc[j] = "done"
        /\ prompt[i] = prompt[j]
        /\ SameRuleSet(i, j)
        /\ trace[i] /\ trace[j]
        /\ Len(decision[i].signals) = 2
        /\ \E e \in 1..Len(decision[i].evidence) : decision[i].evidence[e].matched


\* s without the white space at its ends
RECURSIVE StripSpaces(_)
StripSpaces(s) ==
    IF s # <<>> /\ IsStrWhiteSpace(Head(s)) THEN StripSpaces(Tail(s))
    ELSE IF s # <<>> /\ IsStrWhiteSpace(s[Len(s)])
         THEN StripSpaces(SubSeq(s, 1, Len(s) - 1))
    ELSE s

\* The string is a number: an optional sign, then digits with at most one
\* point among them, and nothing else.
IsNumeric(s) ==
    LET t    == StripSpaces(s)
        body == IF t # <<>> /\ Head(t) = "-" THEN Tail(t) ELSE t
    IN  /\ \A i \in 1..Len(body) : IsDigit(body[i]) \/ body[i] = "."
        /\ Cardinality({i \in 1..Len(body) : body[i] = "."}) <= 1
        /\ \E i \in 1..Len(body) : IsDigit(body[i])

\* The override of weight n is absent or non-numeric.
FallsBack(n) == ~env[n].set \/ ~IsNumeric(env[n].value)

\* The override of weight n is a number outside [0,1].
OutOfRange(n) ==
    /\ env[n].set /\ IsNumeric(env[n].value)
    /\ ~InUnit(parseFloat(env[n].value))

\* C17 (scoring weight validation): an absent or non-numeric override falls
\* back to the default of its weight without raising, a numeric override below
\* 0 or above 1 makes the construction raise, and every constructed engine
\* has its three weights in [0,1].
C17_WeightValidation ==
    pc \in {"engine.ready", "engine.raised"} =>
        /\ pc = "engine.ready" => \A n \in WeightNames : InUnit(weights[n])
        /\ (\E n \in WeightNames : OutOfRange(n)) => pc = "engine.raised"
        /\ (\A n \in WeightNames : ~OutOfRange(n)) =>
              /\ pc = "engine.ready"
              /\ \A n \in WeightNames :
                    FallsBack(n) => SameNumber(weights[n], DefaultWeights[n])


\* C18 (normalizer idempotence): normalize applied to the normalized text of
\* a string returns that text as its normalized text.
C18_Idempotence ==
    pc = "norm.again" => normalizedInput.normalized = normalizedInput.original

\* normalize has been applied again to the text of an input in which it had
\* replaced a carriage return and removed a trailing tab.
C18_Witness ==
    /\ pc = "norm.again"
    /\ prompt = <<"CR", "e", "TAB">> \/ prompt = <<"e", "CR", "e">>
    /\ normalizedInput.original # prompt
    /\ normalizedInput.normalized = normalizedInput.original

\* The reshaped prompt has the normalized text of the input it was made
\* from, and so the same evidence from every rule.
SameAsOriginal ==
    /\ normalize(prompt).normalized = normalizedInput.normalized
    /\ \A c \in RuleClasses :
          RuleEngineEvaluate(<<c>>, normalize(prompt)) =
              RuleEngineEvaluate(<<c>>, normalizedInput)

\* C19 as stated (whitespace-shape equivalence): an input that differs from
\* another only in the length of runs of spaces and tabs, in the spaces and
\* tabs next to a line break or at the ends, or in the style of its line
\* breaks has the same normalized text, and so the same evidence from every
\* rule.
C19_ShapeEquivalenceOriginal ==
    pc \in {"norm.reshaped", "norm.rebroken"} => SameAsOriginal

\* C19 (whitespace-shape equivalence, amended): an input that differs from
\* another only in the length of runs of spaces and tabs, in the spaces and
\* tabs next to a line break or at the ends, or in the style of its line
\* breaks, and not in a space or tab between a CR and the LF after it, has
\* the same normalized text, and so the same evidence from every rule.
C19_ShapeEquivalence ==
    pc = "norm.reshaped" => SameAsOriginal

\* An input with a line break has been reshaped into one with another style
\* of line break and with blanks the original does not have.
C19_Witness ==
    /\ pc = "norm.reshaped"
    /\ \E i \in 1..Len(normalizedInput.original) : normalizedInput.original[i] = "LF"
    /\ \E i \in 1..Len(prompt) : prompt[i] = "CR"
    /\ \A i \in 1..Len(prompt) : prompt[i] # "LF"
    /\ \E i \in 1..Len(prompt) : prompt[i] = "TAB"
    /\ \A i \in 1..Len(normalizedInput.original) : normalizedInput.original[i] # "TAB"
    /\ Len(normalizedInput.normalized) = 3


\* C21 (pure-signal mode): with default weights and thresholds and one enabled
\* provider whose signal has noveltyScore n and confidence c > 0, a firewall
\* without registered rules returns riskScore n up to the rounding of
\* (n * c) / c and confidence c, and for n = c = 0.9 riskScore 0.9, confidence
\* 0.9 and action quarantine; with rules registered of which none matched the
\* signal is weighed as with rules: riskScore 0.2 * n up to rounding,
\* confidence 0.3 + 0.2 * c.
C21_PureSignalMode ==
    /\ pc = "done"
    /\ Len(signals) = 1
    /\ F64Gt(signals[1].confidence, Zero)
    => LET n == signals[1].noveltyScore
           c == signals[1].confidence
       IN  /\ evidence = <<>> =>
                 /\ Near(decision.riskScore, n)
                 /\ F64Eq(decision.confidence, c)
                 /\ (F64Eq(n, Dec(90)) /\ F64Eq(c, Dec(90))) =>
                       /\ F64Eq(decision.riskScore, Dec(90))
                       /\ decision.action = "quarantine"
           /\ (evidence # <<>> /\ \A i \in 1..Len(evidence) : ~evidence[i].matched) =>
                 /\ Near(decision.riskScore, F64Mul(Dec(20), n))
                 /\ F64Eq(decision.confidence, F64Add(Dec(30), F64Mul(Dec(20), c)))

\* Scenario D has been evaluated: no rule, one signal of 0.9 and 0.9, and the
\* Decision is quarantine.
C21_Witness ==
    /\ pc = "done"
    /\ evidence = <<>>
    /\ Len(signals) = 1
    /\ F64Eq(signals[1].noveltyScore, Dec(90))
    /\ F64Eq(signals[1].confidence, Dec(90))
    /\ decision.action = "quarantine"


\* C22 (rule evaluation failure mode): when the evaluate of a registered rule
\* raises, AgentFirewall.evaluate does not raise; it returns a Decision with
\* riskScore 0, confidence 0, action allow and the explanation
\* 'Rule evaluation failed'.
C22_RuleFailureMode ==
    (RuleEngineEvaluateRaises(rules) /\ pc \notin {"idle", "normalize", "rules"}) =>
        /\ pc = "done"
        /\ IsZero(decision.riskScore)
        /\ IsZero(decision.confidence)
        /\ decision.action = "allow"
        /\ decision.explanation = <<"Rule evaluation failed">>


\* C23 (no retries, no stray calls): during one evaluate call the analyze of
\* an enabled provider is invoked at most once, and exactly once from the
\* moment the signals are awaited, also when it fails; the analyze of a
\* disabled provider is never invoked.
C23_NoRetries ==
    /\ \A i \in 1..Len(calls) : calls[i].count <= 1
    /\ \A i \in 1..Len(calls) : ~providers[i].enabled => calls[i].count = 0
    /\ pc \in {"await", "score", "policy", "explain", "done"} =>
          \A i \in EnabledIndices : calls[i].count = 1

\* A Decision was returned by a firewall with an enabled provider whose
\* analyze promise rejected and with a disabled provider.
C23_Witness ==
    /\ pc = "done"
    /\ \E i \in EnabledIndices :
          /\ ProviderAnalyze(providers[i]).type = "reject"
          /\ calls[i].count = 1
    /\ \E i \in 1..Len(providers) : ~providers[i].enabled /\ calls[i].count = 0


\* The number of LF characters of s.
CountLF(s) == Cardinality({i \in 1..Len(s) : s[i] = "LF"})

\* s from its first to its last character that is neither white space nor a
\* line terminator nor U+FEFF; empty when it has no such character.
CoreOf(s) ==
    LET idx == {i \in 1..Len(s) : ~IsTrimmed(s[i])}
    IN  IF idx = {} THEN <<>>
        ELSE SubSeq(s, CHOOSE i \in idx : \A j \in idx : i <= j,
                       CHOOSE i \in idx : \A j \in idx : j <= i)

\* C24 as stated (line breaks are preserved): the normalized text has as many
\* LF characters as the input has line-ending sequences (CRLF, CR or LF),
\* those at the start and at the end of the string included.
C24_LineBreaksOriginal ==
    pc = "norm.done" =>
        CountLF(normalizedInput.normalized) = LineBreakCount(prompt)

\* C24 (line breaks are preserved between the ends): the normalized text has
\* as many LF characters as there are line-ending sequences between the first
\* and the last character of the input that trim does not remove; it neither
\* starts nor ends with a line break.
C24_LineBreaksPreserved ==
    pc = "norm.done" =>
        LET text == normalizedInput.normalized
        IN  /\ CountLF(text) = LineBreakCount(CoreOf(prompt))
            /\ text # <<>> => text[1] # "LF" /\ text[Len(text)] # "LF"

\* normalize has kept the line break between two letters of an input.
C24_Witness ==
    /\ pc = "norm.done"
    /\ prompt = <<"e", "CR", "e">>
    /\ CountLF(normalizedInput.normalized) = 1


\* C25 (completion-order independence): whatever the order in which the
\* analyze promises settled, the returned Decision has one signal per enabled
\* provider in registration order, each the result of that provider, and its
\* riskScore, confidence and action are those of the evidence with that list.
C25_CompletionOrder ==
    pc = "done" =>
        LET sc == calculate(evidence, signals, weights)
        IN  /\ Len(signals) = Cardinality(EnabledIndices)
            /\ \A k \in 1..Len(signals) :
                  signals[k] = SafeAnalyze(providers[KthEnabled(k)]).value
            /\ decision.signals = IF Len(signals) > 0 THEN signals ELSE Undefined
            /\ SameNumber(decision.riskScore, sc.riskScore)
            /\ SameNumber(decision.confidence, sc.confidence)
            /\ decision.action =
                  DefaultPolicyEvaluate(thresholds, sc.riskScore, sc.confidence)

\* Two analyze promises with different results are awaited and the one of
\* the provider registered later has settled first.
C25_Witness ==
    /\ pc = "await"
    /\ \E i, j \in EnabledIndices :
          /\ i < j
          /\ calls[i].state = "pending"
          /\ calls[j].state = "settled"
          /\ ProviderAnalyze(providers[j]).type # "throw"
          /\ SafeAnalyze(providers[i]).value # calls[j].result.value


\* The evidence with entry i turned into a match with effect e.
WithMatch(ev, i, e) ==
    [ev EXCEPT ![i] = [ruleId |-> @.ruleId, matched |-> TRUE, effect |-> e,
                       explanation |-> <<"Rule r matched: d">>]]

\* C26 (more matched rules give higher confidence): with the signals fixed,
\* turning one unmatched entry of the evidence into a matched one, of any
\* severity, never lowers the confidence calculate returns, the step from no
\* match to one match included.
C26_MoreMatchesMoreConfidence ==
    pc = "scoring.done" =>
        \A i \in 1..Len(evidence) :
            ~evidence[i].matched =>
                \A e \in EffectSet :
                    F64Le(score.confidence,
                        calculate(WithMatch(evidence, i, e), signals, weights).confidence)


\* The stated counter after the first k characters of text: held at 0, it is
\* the largest excess of openers over closers in a stretch that ends at k.
StatedDepth(text, k) ==
    LET excess(j) == Cardinality({i \in (j + 1)..k : IsOpener(text[i])})
                     - Cardinality({i \in (j + 1)..k : IsCloser(text[i])})
        all == {excess(j) : j \in 0..k}
    IN  CHOOSE d \in all : \A e \in all : e <= d

\* text with every opener written "(" and every closer written ")".
OneKind(text) ==
    [i \in 1..Len(text) |-> IF IsOpener(text[i]) THEN "("
                            ELSE IF IsCloser(text[i]) THEN ")" ELSE text[i]]

\* text without its leading closers.
RECURSIVE DropLeadingClosers(_)
DropLeadingClosers(text) ==
    IF text # <<>> /\ IsCloser(Head(text)) THEN DropLeadingClosers(Tail(text)) ELSE text

\* C27 (excessive-nesting predicate): the rule matches exactly when the
\* stated counter exceeds 5 after some character of the normalized text. The
\* kind of a bracket makes no difference, six openers in a row match, a text
\* with five openers or fewer does not, and closers before the first opener
\* change nothing.
C27_ExcessiveNesting ==
    pc = "nest.done" =>
        LET text == normalizedInput.normalized
            matched == evidence[1].matched
            Matches(t) == ExcessiveNestingCondition([normalized |-> t])
        IN  /\ matched <=> \E k \in 6..Len(text) : StatedDepth(text, k) > 5
            /\ matched = Matches(OneKind(text))
            /\ (\E k \in 1..(Len(text) - 5) :
                    \A i \in k..(k + 5) : IsOpener(text[i])) => matched
            /\ Cardinality({i \in 1..Len(text) : IsOpener(text[i])}) <= 5 => ~matched
            /\ matched = Matches(DropLeadingClosers(text))

\* The rule has matched a text of six openers of two kinds that follow a
\* closer.
C27_Witness ==
    /\ pc = "nest.done"
    /\ prompt = <<"}", "(", "[", "(", "(", "[", "(">>
    /\ evidence[1].matched
    /\ F64Eq(evidence[1].effect.score, Dec(15))


\* An evidence list is well formed for a rule list: one entry per rule, in
\* registration order, with the rule's id, and with an effect and an
\* explanation exactly when it matched.
WellFormedEvidence(ev, rs) ==
    /\ Len(ev) = Len(rs)
    /\ \A i \in 1..Len(ev) :
          /\ ev[i].ruleId = RuleId(rs[i])
          /\ ev[i].matched \in BOOLEAN
          /\ (ev[i].effect # Undefined) <=> ev[i].matched
          /\ (ev[i].explanation # Undefined) <=> ev[i].matched

\* C28 (evidence well-formedness): the evidence RuleEngine.evaluate returned,
\* and the evidence of the Decision, is well formed for the registered rules.
C28_EvidenceWellFormed ==
    /\ pc = "gather" => WellFormedEvidence(evidence, rules)
    /\ pc \in {"await", "score", "policy", "explain", "done"} =>
          /\ Len(evidence) <= Len(rules)
          /\ WellFormedEvidence(evidence, RulesSeen(evidence))
    /\ pc = "done" => decision.evidence = evidence

\* A Decision was returned by a firewall with two rules of which the first
\* did not match and the second did.
C28_Witness ==
    /\ pc = "done"
    /\ Len(decision.evidence) = 2
    /\ ~decision.evidence[1].matched
    /\ decision.evidence[2].matched
    /\ decision.evidence[2].effect # Undefined


\* warn < block < quarantine
AscendingThresholds(th) == F64Lt(th.warn, th.block) /\ F64Lt(th.block, th.quarantine)

\* C29 (confidence never decides between allow and non-allow): with
\* thresholds warn < block < quarantine, evaluate returns allow exactly when
\* riskScore < warn, whatever the confidence; otherwise it returns warn,
\* block or quarantine.
C29_AllowIffBelowWarn ==
    pc = "policy.evaluated" /\ AscendingThresholds(thresholds) =>
        /\ action = "allow" <=> F64Lt(score.riskScore, thresholds.warn)
        /\ action \in {"allow", "warn", "block", "quarantine"}
        /\ \A c \in ConfidenceValues :
              (DefaultPolicyEvaluate(thresholds, score.riskScore, c) = "allow")
                  <=> (action = "allow")

\* A policy with ascending thresholds was evaluated at its warn threshold
\* with high confidence and did not allow.
C29_Witness ==
    /\ pc = "policy.evaluated"
    /\ AscendingThresholds(thresholds)
    /\ F64Eq(score.riskScore, thresholds.warn)
    /\ F64Ge(score.confidence, Dec(50))
    /\ action = "warn"


\* The severity order of the actions: allow < warn < block < quarantine.
ActionRank(a) ==
    CASE a = "allow" -> 0 [] a = "warn" -> 1 [] a = "block" -> 2
      [] a = "quarantine" -> 3

\* C30 (signals never lower the action): for evidence of at least one
\* registered rule, valid weights, ascending thresholds and signals with
\* noveltyScore and confidence in [0,1], the riskScore and the confidence are
\* not below those of the same evidence without signals, and the action is
\* not less severe.
C30_SignalsNeverLower ==
    (pc = "scoring.decided" /\ Len(evidence) > 0 /\ AllSignalsValid) =>
        LET base == calculate(evidence, <<>>, weights)
            baseAction ==
                DefaultPolicyEvaluate(thresholds, base.riskScore, base.confidence)
        IN  /\ F64Le(base.riskScore, score.riskScore)
            /\ F64Le(base.confidence, score.confidence)
            /\ ActionRank(baseAction) <= ActionRank(action)

\* Signals have lifted the evidence of one matched rule out of the
\* low-confidence gate: warn without them, a more severe action with them.
C30_Witness ==
    /\ pc = "scoring.decided"
    /\ Len(signals) > 0
    /\ Cardinality(MatchedEntries) >= 1
    /\ DefaultPolicyEvaluate(thresholds,
                             calculate(evidence, <<>>, weights).riskScore,
                             calculate(evidence, <<>>, weights).confidence) = "warn"
    /\ action \in {"block", "quarantine"}

====
